---- MODULE Spec2Model ----
(***************************************************************************)
(* State-machine model of the tank-harvest application: the Entry Store    *)
(* (IndexedDB object store), the Settings Store (localStorage), the React  *)
(* state of App and its screens, the synchronization bridge and the        *)
(* aggregation engine.                                                     *)
(*                                                                         *)
(* Conventions.                                                            *)
(*  - A JavaScript string is a tuple of one-character strings, so that     *)
(*    startsWith, split, parseFloat, String() and localeCompare are        *)
(*    computed character by character.                                     *)
(*  - A JavaScript number is an integer; kilograms and prices are kept in  *)
(*    tenths (1.8 kg is 18), arithmetic is exact.  NaN is one reserved     *)
(*    value that every arithmetic wrapper propagates.                      *)
(*  - A handler is one action: it runs from the click to the last await.   *)
(*    The outcome of each store or network call is a parameter of the      *)
(*    action; each specification says which outcomes it lets happen.       *)
(***************************************************************************)
EXTENDS Integers, Sequences, FiniteSets, TLC

VARIABLES
  store,          \* IndexedDB object store 'harvest_entries': id -> entry
  ls,             \* localStorage['harvest_settings']: <<>> or <<settings>>
  entries,        \* App state: entries
  settings,       \* App state: settings
  googleSheetUrl, \* settings.googleSheetUrl as SyncManager reads it
  nextId,         \* how many ids generateId has handed out
  clock,          \* Date.now(), in ticks
  editingId,      \* LogScreen state: editingId (<<>> is null)
  editValues,     \* LogScreen state: editValues (<<>> is {}, else <<entry>>)
  selectedIds,    \* LogScreen state: selectedIds
  confirmingId,   \* LogScreen state: confirmingId (<<>> is null)
  confirmingDate, \* HistoryScreen state: confirmingDate (<<>> is null)
  result,         \* SyncManager state: result banner ("none", "success", "error")
  currentView,    \* App state: currentView
  isResetting,    \* App state: isResetting
  isBatchDeleting,\* LogScreen state: isBatchDeleting
  pending,        \* store writes issued and not yet settled, oldest first
  dbCall,         \* one DBService call followed through its IndexedDB events
  instance,       \* DBService.instance: TRUE when a connection is cached
  response,       \* body of the last response the bridge returned to a pull
  aggIn,          \* entry list handed to the aggregation engine
  aggOut,         \* summaries the aggregation engine returned for aggIn
  selectedDate,   \* HistoryScreen state: selectedDate (<<>> is null)
  dailyAbstract,  \* HistoryScreen: the abstract computed for each date opened
  tankStats,      \* CrateEntry: tankStats of the last render (<<>> before it)
  revenueData,    \* RevenueScreen: revenueData of the last render
  report,         \* SyncManager: what handleDownloadPDF last wrote
  recalledEntries, \* SyncManager: the entries the last recall built from the response
  serials,        \* LogScreen: the list last rendered and its groups with serial numbers
  ev              \* the last handler that ran, with its inputs and outcomes

vars == <<store, ls, entries, settings, googleSheetUrl, nextId, clock,
          editingId, editValues, selectedIds, confirmingId, confirmingDate,
          result, currentView, isResetting, isBatchDeleting, pending, dbCall,
          instance, response, aggIn, aggOut,
                 selectedDate, dailyAbstract, tankStats, revenueData, report,
                 recalledEntries, serials, ev>>

----------------------------------------------------------------------------
(* Bounds of the model *)

MaxIds == 2
MaxClock == 2
TicksPerDay == 2
MaxLen == 3

----------------------------------------------------------------------------
(* JavaScript numbers and strings *)

NaN == 0 - 1000000

IsNaN(x) == x = NaN

JSAdd(a, b) == IF IsNaN(a) \/ IsNaN(b) THEN NaN ELSE a + b

JSSub(a, b) == IF IsNaN(a) \/ IsNaN(b) THEN NaN ELSE a - b

JSMul(a, b) == IF IsNaN(a) \/ IsNaN(b) THEN NaN ELSE a * b

JSGreater(a, b) == ~IsNaN(a) /\ ~IsNaN(b) /\ a > b

\* x || d for a number x: 0 and NaN are falsy
OrNumber(x, d) == IF x = 0 \/ IsNaN(x) THEN d ELSE x

DigitChars == <<"0", "1", "2", "3", "4", "5", "6", "7", "8", "9">>

IsDigit(c) == \E i \in 1..10 : DigitChars[i] = c

DigitVal(c) == (CHOOSE i \in 1..10 : DigitChars[i] = c) - 1

RECURSIVE DigitRun(_, _)
\* number of consecutive digits of s from position i on
DigitRun(s, i) ==
  IF i <= Len(s) /\ IsDigit(s[i]) THEN 1 + DigitRun(s, i + 1) ELSE 0

RECURSIVE DigitsValue(_, _, _)
\* value of the n digits of s that start at position i
DigitsValue(s, i, n) ==
  IF n = 0 THEN 0
  ELSE DigitsValue(s, i, n - 1) * 10 + DigitVal(s[i + n - 1])

\* parseFloat: optional sign, digits, optional point and digits, longest
\* prefix; NaN when the prefix holds no digit.  The result is in tenths, so
\* the texts fed to it carry at most one decimal.
ParseFloat(s) ==
  LET signed == Len(s) >= 1 /\ s[1] \in {"-", "+"}
      start  == IF signed THEN 2 ELSE 1
      ni     == DigitRun(s, start)
      dot    == start + ni <= Len(s) /\ s[start + ni] = "."
      nf     == IF dot THEN DigitRun(s, start + ni + 1) ELSE 0
      mag    == DigitsValue(s, start, ni) * 10
                  + (IF nf >= 1 THEN DigitVal(s[start + ni + 1]) ELSE 0)
  IN  IF ni + nf = 0 THEN NaN
      ELSE IF signed /\ s[1] = "-" THEN 0 - mag ELSE mag

\* parseInt: optional sign and digits, longest prefix; NaN when the prefix
\* holds no digit
ParseInt(s) ==
  LET signed == Len(s) >= 1 /\ s[1] \in {"-", "+"}
      start  == IF signed THEN 2 ELSE 1
      ni     == DigitRun(s, start)
      mag    == DigitsValue(s, start, ni)
  IN  IF ni = 0 THEN NaN
      ELSE IF signed /\ s[1] = "-" THEN 0 - mag ELSE mag

StartsWith(s, p) == Len(p) <= Len(s) /\ SubSeq(s, 1, Len(p)) = p

RECURSIVE IndexOf(_, _, _)
\* first position >= i of character c in s, Len(s) + 1 when there is none
IndexOf(s, c, i) ==
  IF i > Len(s) THEN Len(s) + 1
  ELSE IF s[i] = c THEN i ELSE IndexOf(s, c, i + 1)

\* s.split('T')[0]
SplitT0(s) == SubSeq(s, 1, IndexOf(s, "T", 1) - 1)

CharOrder == <<" ", "0", "1", "2", "3", "4", "5", "6", "7", "8", "9",
               "a", "d", "e", "i", "k", "m", "n", "T">>

CharRank(c) ==
  IF \E i \in 1..Len(CharOrder) : CharOrder[i] = c
  THEN CHOOSE i \in 1..Len(CharOrder) : CharOrder[i] = c
  ELSE Len(CharOrder) + 1

RECURSIVE CompareFrom(_, _, _)
CompareFrom(a, b, i) ==
  IF i > Len(a) /\ i > Len(b) THEN 0
  ELSE IF i > Len(a) THEN 0 - 1
  ELSE IF i > Len(b) THEN 1
  ELSE IF CharRank(a[i]) < CharRank(b[i]) THEN 0 - 1
  ELSE IF CharRank(a[i]) > CharRank(b[i]) THEN 1
  ELSE CompareFrom(a, b, i + 1)

\* a.localeCompare(b) on the alphabet of the model: -1, 0 or 1
LocaleCompare(a, b) == CompareFrom(a, b, 1)

RECURSIVE ToDigits(_)
\* String(n) for an integer n >= 0
ToDigits(n) ==
  IF n < 10 THEN <<DigitChars[n + 1]>>
  ELSE ToDigits(n \div 10) \o <<DigitChars[(n % 10) + 1]>>

----------------------------------------------------------------------------
(* Time, identifiers, tanks *)

\* new Date().toISOString(): a date of fixed width, the separator 'T', the
\* time of day.  Day d of the model is written as two digits.
ToISOString(t) ==
  <<DigitChars[((t \div TicksPerDay) \div 10) + 1],
    DigitChars[((t \div TicksPerDay) % 10) + 1],
    "T",
    DigitChars[(t % TicksPerDay) + 1]>>

\* DBService.generateId(): never hands out the same id twice
IdOf(n) == <<"i", "d">> \o ToDigits(n)

TankName(n) == <<"T", "a", "n", "k", " ">> \o ToDigits(n)

Tanks == {TankName(1), TankName(2)}

DefaultTeam == <<"T", "e", "a", "m">>

----------------------------------------------------------------------------
(* Entry Store: DBService over the object store 'harvest_entries' *)

EmptyStore == [i \in {} |-> 0]

\* a put that replaces the whole object store by the one record
SaveEntryReplacingAll(s, e) == [i \in {e.id} |-> e]

\* store.put(entry) under keyPath 'id'
SaveEntry(s, e) ==
  [i \in (DOMAIN s) \cup {e.id} |-> IF i = e.id THEN e ELSE s[i]]

\* a delete that clears the object store when it names an absent id
DeleteEntriesClearing(s, ids) ==
  IF ids \subseteq DOMAIN s THEN [i \in (DOMAIN s) \ ids |-> s[i]]
  ELSE [i \in {} |-> 0]

\* ids.forEach(id => store.delete(id)): deleting an absent key succeeds
DeleteEntries(s, ids) == [i \in (DOMAIN s) \ ids |-> s[i]]

DeleteEntry(s, id) == DeleteEntries(s, {id})

\* a marking that sets the flag on every record of the store
MarkEntriesSyncedAll(s, ids) ==
  [i \in DOMAIN s |-> [s[i] EXCEPT !.synced = TRUE]]

\* ids.forEach: get(id), and put with synced = true when a record is found
MarkEntriesSynced(s, ids) ==
  [i \in DOMAIN s |-> IF i \in ids THEN [s[i] EXCEPT !.synced = TRUE] ELSE s[i]]

GetCount(s) == Cardinality(DOMAIN s)

RECURSIVE KeyOrder(_)
\* the keys of a set in IndexedDB key order (ascending)
KeyOrder(ids) ==
  IF ids = {} THEN <<>>
  ELSE LET m == CHOOSE x \in ids : \A y \in ids : LocaleCompare(x, y) <= 0
       IN  <<m>> \o KeyOrder(ids \ {m})

RECURSIVE InsertByTimestampDesc(_, _, _)
\* e placed before the first element from position i on whose timestamp is
\* smaller: Array.prototype.sort is stable
InsertByTimestampDesc(sorted, e, i) ==
  IF i > Len(sorted) THEN Append(sorted, e)
  ELSE IF LocaleCompare(sorted[i].timestamp, e.timestamp) < 0
       THEN SubSeq(sorted, 1, i - 1) \o <<e>> \o SubSeq(sorted, i, Len(sorted))
       ELSE InsertByTimestampDesc(sorted, e, i + 1)

RECURSIVE SortByTimestampDesc(_)
\* result.sort((a, b) => b.timestamp.localeCompare(a.timestamp))
SortByTimestampDesc(es) ==
  IF es = <<>> THEN <<>>
  ELSE InsertByTimestampDesc(SortByTimestampDesc(SubSeq(es, 1, Len(es) - 1)),
                             es[Len(es)], 1)

\* store.getAll(), then the sort
GetAllEntries(s) ==
  LET keys == KeyOrder(DOMAIN s)
  IN  SortByTimestampDesc([k \in 1..Len(keys) |-> s[keys[k]]])

----------------------------------------------------------------------------
(* Settings Store: DBService over localStorage *)

Defaults ==
  [activeTank |-> TankName(1), shrimpCount |-> 100,
   tankCounts |-> [t \in {} |-> 0], tankPrices |-> [t \in {} |-> <<>>],
   crateWeight |-> 100, teamName |-> DefaultTeam]

\* localStorage.setItem(SETTINGS_KEY, JSON.stringify(settings))
SaveSettings(s) == <<s>>

\* what getSettings returns for the stored item l
GetSettings(l) ==
  IF l = <<>> THEN Defaults
  ELSE LET parsed == l[1]
       IN  [activeTank  |-> IF parsed.activeTank = <<>> THEN Defaults.activeTank
                            ELSE parsed.activeTank,
            shrimpCount |-> parsed.shrimpCount,
            tankCounts  |-> parsed.tankCounts,
            tankPrices  |-> parsed.tankPrices,
            crateWeight |-> parsed.crateWeight,
            teamName    |-> IF parsed.teamName = <<>> THEN Defaults.teamName
                            ELSE parsed.teamName]

\* what getSettings leaves in localStorage: the defaults are persisted when
\* nothing is stored
AfterGetSettings(l) == IF l = <<>> THEN SaveSettings(Defaults) ELSE l

----------------------------------------------------------------------------
(* Grouping *)

\* the keys of HistoryScreen's groupedByDate: timestamp.split('T')[0]
DateKeys(es) == {SplitT0(es[i].timestamp) : i \in 1..Len(es)}

RECURSIVE SelectSeq2(_, _, _)
\* es.filter(e => the date of e is d), from position i on
SelectSeq2(es, d, i) ==
  IF i > Len(es) THEN <<>>
  ELSE IF SplitT0(es[i].timestamp) = d
       THEN <<es[i]>> \o SelectSeq2(es, d, i + 1)
       ELSE SelectSeq2(es, d, i + 1)

RECURSIVE DatesDesc(_)
DatesDesc(ds) ==
  IF ds = {} THEN <<>>
  ELSE LET m == CHOOSE x \in ds : \A y \in ds : LocaleCompare(x, y) >= 0
       IN  <<m>> \o DatesDesc(ds \ {m})

\* HistoryScreen.groupedByDate: one bucket per date, newest date first
GroupedByDate(es) ==
  LET ds == DatesDesc(DateKeys(es))
  IN  [k \in 1..Len(ds) |-> [date |-> ds[k], entries |-> SelectSeq2(es, ds[k], 1)]]

\* a filter that compares the first character of the date only
IdsToDeleteByFirstChar(es, date) ==
  {es[i].id : i \in {j \in 1..Len(es) :
                      StartsWith(es[j].timestamp, SubSeq(date, 1, 1))}}

\* App.handleDeleteHistoryDate: entries.filter(e => e.timestamp.startsWith(date)).map(e => e.id)
IdsToDelete(es, date) ==
  {es[i].id : i \in {j \in 1..Len(es) : StartsWith(es[j].timestamp, date)}}

IdsOf(es) == {es[i].id : i \in 1..Len(es)}

----------------------------------------------------------------------------
(* Inputs *)

\* texts typed into the weight field of the entry screen
WeightTexts == {<<"a">>, <<"0">>, <<"-", "5">>, <<"5">>, <<"2", ".", "5">>}

\* texts typed into the weight field of the edit form
EditTexts == {<<>>, <<"0">>, <<"7">>}

Views == {"entry", "control", "abstract", "log", "sync", "history", "revenue"}

SheetUrl == <<"u">>

Ev(op, arg, ids, out) == [op |-> op, arg |-> arg, ids |-> ids, out |-> out]

\* a record pushed to the bridge by an earlier session and kept by IndexedDB
SyncedEntry ==
  [id |-> IdOf(0), tank |-> TankName(1), count |-> 100, weight |-> 50,
   crateWeight |-> 100, crateCount |-> 2, team |-> DefaultTeam,
   timestamp |-> ToISOString(0), synced |-> TRUE]

\* IndexedDB holding that record when the application starts
SyncedStore == SaveEntry(EmptyStore, SyncedEntry)

----------------------------------------------------------------------------
(* App: mount *)

\* the state of the screens as useState initialises it
LogScreenMounted ==
  /\ editingId' = <<>>
  /\ editValues' = <<>>
  /\ selectedIds' = {}
  /\ confirmingId' = <<>>
  /\ isBatchDeleting' = FALSE

LogScreenUnchanged ==
  UNCHANGED <<editingId, editValues, selectedIds, confirmingId, isBatchDeleting>>

\* App after its first effect, over the object store s0 and with the bridge
\* address url: getSettings has run, loadData has resolved
MountedOver(s0, url) ==
  /\ store = s0
  /\ ls = SaveSettings(Defaults)
  /\ settings = GetSettings(ls)
  /\ entries = GetAllEntries(store)
  /\ googleSheetUrl = url
  /\ nextId = 0
  /\ clock = 0
  /\ editingId = <<>>
  /\ editValues = <<>>
  /\ selectedIds = {}
  /\ confirmingId = <<>>
  /\ confirmingDate = <<>>
  /\ result = "none"
  /\ currentView = "entry"
  /\ isResetting = FALSE
  /\ isBatchDeleting = FALSE
  /\ pending = <<>>
  /\ dbCall = <<>>
  /\ instance = TRUE
  /\ response = <<>>
  /\ selectedDate = <<>>
  /\ dailyAbstract = <<>>
  /\ tankStats = <<>>
  /\ revenueData = <<>>
  /\ report = <<>>
  /\ recalledEntries = <<>>
  /\ serials = <<>>
  /\ ev = Ev("mount", <<>>, {}, "ok")

InitApp(s0, url) ==
  /\ MountedOver(s0, url)
  /\ aggIn = <<>>
  /\ aggOut = <<>>

\* the navigation bar: the screen that is left is unmounted, the one that is
\* entered starts from its initial state
SetCurrentView(v) ==
  /\ ~isResetting
  /\ v # currentView
  /\ currentView' = v
  /\ LogScreenMounted
  /\ confirmingDate' = <<>>
  /\ selectedDate' = <<>>
  /\ result' = "none"
  /\ UNCHANGED <<store, ls, entries, settings, googleSheetUrl, nextId, clock,
                 pending, dbCall, instance, response, aggIn, aggOut,
                 dailyAbstract, tankStats, revenueData, report,
                 recalledEntries, serials, isResetting>>
  /\ ev' = Ev("setCurrentView", <<>>, {}, v)

Tick ==
  /\ clock < MaxClock
  /\ clock' = clock + 1
  /\ UNCHANGED <<store, ls, entries, settings, googleSheetUrl, nextId,
                 editingId, editValues, selectedIds, confirmingId,
                 confirmingDate, result, currentView, isResetting,
                 isBatchDeleting, pending, dbCall, instance, response, aggIn, aggOut,
                 selectedDate, dailyAbstract, tankStats, revenueData, report,
                 recalledEntries, serials, ev>>

\* App.loadData: the list is replaced when getAllEntries resolves and kept
\* when it rejects
LoadData(s, loadOk) == IF loadOk THEN GetAllEntries(s) ELSE entries

----------------------------------------------------------------------------
(* Entry screen: CrateEntry.handleSave and App.handleAddEntry *)

\* a test that lets a zero weight through
AcceptsWeightOrZero(n) == ~IsNaN(n) /\ n >= 0

\* the test handleSave applies to the parsed weight
AcceptsWeight(n) == ~IsNaN(n) /\ n > 0

NewEntry(weight, crateCount) ==
  [id |-> IdOf(nextId + 1), tank |-> settings.activeTank,
   count |-> settings.shrimpCount, weight |-> weight,
   crateWeight |-> settings.crateWeight, crateCount |-> crateCount,
   team |-> settings.teamName, timestamp |-> ToISOString(clock),
   synced |-> FALSE]

\* a save that puts the new entry at the end of the list
HandleSaveAppending(text, cc, dbOk) ==
  /\ currentView = "entry"
  /\ ~isResetting
  /\ LET numWeight == ParseFloat(text)
     IN  IF AcceptsWeight(numWeight)
         THEN /\ nextId < MaxIds
              /\ nextId' = nextId + 1
              /\ IF dbOk
                 THEN /\ store' = SaveEntry(store, NewEntry(numWeight, cc))
                      /\ entries' = Append(entries, NewEntry(numWeight, cc))
                      /\ ev' = Ev("handleSave", text, {}, "saved")
                 ELSE /\ UNCHANGED <<store, entries>>
                      /\ ev' = Ev("handleSave", text, {}, "alert")
         ELSE /\ UNCHANGED <<store, entries, nextId>>
              /\ ev' = Ev("handleSave", text, {}, "refused")
  /\ UNCHANGED <<ls, settings, googleSheetUrl, clock, editingId, editValues,
                 selectedIds, confirmingId, confirmingDate, result,
                 currentView, isResetting, isBatchDeleting, pending, dbCall, instance, response,
                 aggIn, aggOut,
                 selectedDate, dailyAbstract, tankStats, revenueData, report,
                 recalledEntries, serials>>

HandleSave(text, cc, dbOk) ==
  /\ currentView = "entry"
  /\ ~isResetting
  /\ LET numWeight == ParseFloat(text)
     IN  IF AcceptsWeight(numWeight)
         THEN /\ nextId < MaxIds
              /\ nextId' = nextId + 1
              /\ IF dbOk
                 THEN /\ store' = SaveEntry(store, NewEntry(numWeight, cc))
                      /\ entries' = <<NewEntry(numWeight, cc)>> \o entries
                      /\ ev' = Ev("handleSave", text, {}, "saved")
                 ELSE /\ UNCHANGED <<store, entries>>
                      /\ ev' = Ev("handleSave", text, {}, "alert")
         ELSE /\ UNCHANGED <<store, entries, nextId>>
              /\ ev' = Ev("handleSave", text, {}, "refused")
  /\ UNCHANGED <<ls, settings, googleSheetUrl, clock, editingId, editValues,
                 selectedIds, confirmingId, confirmingDate, result,
                 currentView, isResetting, isBatchDeleting, pending, dbCall, instance, response,
                 aggIn, aggOut,
                 selectedDate, dailyAbstract, tankStats, revenueData, report,
                 recalledEntries, serials>>

----------------------------------------------------------------------------
(* Log screen: LogScreen and the App handlers it calls *)

\* the row of entry e shows the edit form
RowEditing(e) == editingId = e.id

\* the row of entry e shows the Confirm button
RowConfirming(e) == ~RowEditing(e) /\ confirmingId = e.id

AppUnchangedByLogScreen ==
  UNCHANGED <<ls, settings, googleSheetUrl, nextId, clock, confirmingDate,
              result, currentView, isResetting, pending, dbCall, instance, response, aggIn, aggOut,
                 selectedDate, dailyAbstract, tankStats, revenueData, report,
                 recalledEntries, serials>>

StartEdit(i) ==
  /\ currentView = "log" /\ ~isResetting
  /\ i \in 1..Len(entries)
  /\ ~RowEditing(entries[i]) /\ ~RowConfirming(entries[i])
  /\ editingId' = entries[i].id
  /\ editValues' = <<entries[i]>>
  /\ ev' = Ev("startEdit", <<>>, {entries[i].id}, "ok")
  /\ UNCHANGED <<store, entries, selectedIds, confirmingId, isBatchDeleting>>
  /\ AppUnchangedByLogScreen

\* the edit form is on screen: some row is the one being edited
FormRendered == \E i \in 1..Len(entries) : RowEditing(entries[i])

\* onChange of the weight input: parseFloat(e.target.value)
ChangeEditWeight(text) ==
  /\ currentView = "log" /\ ~isResetting
  /\ FormRendered
  /\ editValues' = <<[editValues[1] EXCEPT !.weight = ParseFloat(text)]>>
  /\ ev' = Ev("changeEditWeight", text, {editingId}, "ok")
  /\ UNCHANGED <<store, entries, editingId, selectedIds, confirmingId,
                 isBatchDeleting>>
  /\ AppUnchangedByLogScreen

\* onChange of the crate select: 1 or 2
ChangeEditCrateCount(n) ==
  /\ currentView = "log" /\ ~isResetting
  /\ FormRendered
  /\ editValues' = <<[editValues[1] EXCEPT !.crateCount = n]>>
  /\ ev' = Ev("changeEditCrateCount", <<>>, {editingId}, "ok")
  /\ UNCHANGED <<store, entries, editingId, selectedIds, confirmingId,
                 isBatchDeleting>>
  /\ AppUnchangedByLogScreen

CancelEdit ==
  /\ currentView = "log" /\ ~isResetting
  /\ FormRendered
  /\ editingId' = <<>>
  /\ editValues' = <<>>
  /\ ev' = Ev("cancelEdit", <<>>, {}, "ok")
  /\ UNCHANGED <<store, entries, selectedIds, confirmingId, isBatchDeleting>>
  /\ AppUnchangedByLogScreen

\* App.handleUpdateEntry: saveEntry, then loadData; an alert when it rejects
HandleUpdateEntry(updatedEntry, dbOk, loadOk) ==
  IF dbOk
  THEN /\ store' = SaveEntry(store, updatedEntry)
       /\ entries' = LoadData(store', loadOk)
  ELSE UNCHANGED <<store, entries>>

\* LogScreen.saveEdit (the Update button)
SaveEdit(dbOk, loadOk) ==
  /\ currentView = "log" /\ ~isResetting
  /\ FormRendered
  /\ editingId # <<>> /\ editValues # <<>>
  /\ HandleUpdateEntry(editValues[1], dbOk, loadOk)
  /\ editingId' = <<>>
  /\ ev' = Ev("saveEdit", <<>>, {editingId}, IF dbOk THEN "saved" ELSE "alert")
  /\ UNCHANGED <<editValues, selectedIds, confirmingId, isBatchDeleting>>
  /\ AppUnchangedByLogScreen

StartDelete(i) ==
  /\ currentView = "log" /\ ~isResetting
  /\ i \in 1..Len(entries)
  /\ ~RowEditing(entries[i]) /\ ~RowConfirming(entries[i])
  /\ confirmingId' = entries[i].id
  /\ ev' = Ev("startDelete", <<>>, {entries[i].id}, "ok")
  /\ UNCHANGED <<store, entries, editingId, editValues, selectedIds,
                 isBatchDeleting>>
  /\ AppUnchangedByLogScreen

\* App.handleDeleteEntry: deleteEntry, then loadData
HandleDeleteEntry(id, dbOk, loadOk) ==
  IF dbOk
  THEN /\ store' = DeleteEntry(store, id)
       /\ entries' = LoadData(store', loadOk)
  ELSE UNCHANGED <<store, entries>>

\* LogScreen.confirmDelete (the Confirm button of a row)
ConfirmDelete(i, dbOk, loadOk) ==
  /\ currentView = "log" /\ ~isResetting
  /\ i \in 1..Len(entries)
  /\ RowConfirming(entries[i])
  /\ confirmingId' = <<>>
  /\ HandleDeleteEntry(entries[i].id, dbOk, loadOk)
  /\ ev' = Ev("confirmDelete", <<>>, {entries[i].id},
              IF dbOk THEN "deleted" ELSE "alert")
  /\ UNCHANGED <<editingId, editValues, selectedIds, isBatchDeleting>>
  /\ AppUnchangedByLogScreen

HandleToggleSelect(i) ==
  /\ currentView = "log" /\ ~isResetting
  /\ i \in 1..Len(entries)
  /\ ~RowEditing(entries[i])
  /\ selectedIds' = IF editingId # <<>> THEN selectedIds
                    ELSE IF entries[i].id \in selectedIds
                         THEN selectedIds \ {entries[i].id}
                         ELSE selectedIds \cup {entries[i].id}
  /\ ev' = Ev("toggleSelect", <<>>, {entries[i].id}, "ok")
  /\ UNCHANGED <<store, entries, editingId, editValues, confirmingId,
                 isBatchDeleting>>
  /\ AppUnchangedByLogScreen

HandleSelectAll ==
  /\ currentView = "log" /\ ~isResetting
  /\ Len(entries) > 0
  /\ selectedIds' = IF Cardinality(selectedIds) = Len(entries) THEN {}
                    ELSE IdsOf(entries)
  /\ ev' = Ev("selectAll", <<>>, {}, "ok")
  /\ UNCHANGED <<store, entries, editingId, editValues, confirmingId,
                 isBatchDeleting>>
  /\ AppUnchangedByLogScreen

\* App.handleBatchDelete: deleteEntries, then loadData
HandleBatchDelete(ids, dbOk, loadOk) ==
  IF dbOk
  THEN /\ store' = DeleteEntries(store, ids)
       /\ entries' = LoadData(store', loadOk)
  ELSE UNCHANGED <<store, entries>>

\* LogScreen.handleBatchDeleteClick (Delete, then Confirm Delete, of the
\* selection bar)
HandleBatchDeleteClick(dbOk, loadOk) ==
  /\ currentView = "log" /\ ~isResetting
  /\ selectedIds # {}
  /\ ~isBatchDeleting
  /\ HandleBatchDelete(selectedIds, dbOk, loadOk)
  /\ selectedIds' = {}
  /\ ev' = Ev("batchDelete", <<>>, selectedIds,
              IF dbOk THEN "deleted" ELSE "alert")
  /\ UNCHANGED <<editingId, editValues, confirmingId, isBatchDeleting>>
  /\ AppUnchangedByLogScreen

----------------------------------------------------------------------------
(* History screen: HistoryScreen and App.handleDeleteHistoryDate *)

\* App.handleDeleteHistoryDate
HandleDeleteHistoryDate(date, dbOk, loadOk) ==
  IF IdsToDelete(entries, date) # {} /\ dbOk
  THEN /\ store' = DeleteEntries(store, IdsToDelete(entries, date))
       /\ entries' = LoadData(store', loadOk)
  ELSE UNCHANGED <<store, entries>>

AppUnchangedByHistoryScreen ==
  /\ UNCHANGED <<ls, settings, googleSheetUrl, nextId, clock, result,
                 currentView, isResetting, pending, dbCall, instance, response, aggIn, aggOut,
                 selectedDate, dailyAbstract, tankStats, revenueData, report,
                 recalledEntries, serials>>
  /\ LogScreenUnchanged

\* a delete button that deletes on the first click
HandleDeleteClickAtOnce(date, dbOk, loadOk) ==
  /\ currentView = "history" /\ ~isResetting
  /\ date \in DateKeys(entries)
  /\ HandleDeleteHistoryDate(date, dbOk, loadOk)
  /\ confirmingDate' = <<>>
  /\ ev' = Ev("deleteDate", date, IdsToDelete(entries, date),
              IF dbOk THEN "deleted" ELSE "alert")
  /\ AppUnchangedByHistoryScreen

\* HistoryScreen.handleDeleteClick: the first click on a date asks, the
\* second one deletes
HandleDeleteClick(date, dbOk, loadOk) ==
  /\ currentView = "history" /\ ~isResetting
  /\ date \in DateKeys(entries)
  /\ IF confirmingDate = date
     THEN /\ HandleDeleteHistoryDate(date, dbOk, loadOk)
          /\ confirmingDate' = <<>>
          /\ ev' = Ev("deleteDate", date, IdsToDelete(entries, date),
                      IF dbOk THEN "deleted" ELSE "alert")
     ELSE /\ confirmingDate' = date
          /\ UNCHANGED <<store, entries>>
          /\ ev' = Ev("askDeleteDate", date, {}, "ok")
  /\ AppUnchangedByHistoryScreen

\* the No button of a date that is being confirmed
CancelDeleteDate ==
  /\ currentView = "history" /\ ~isResetting
  /\ confirmingDate \in DateKeys(entries)
  /\ confirmingDate' = <<>>
  /\ ev' = Ev("cancelDeleteDate", confirmingDate, {}, "ok")
  /\ UNCHANGED <<store, entries>>
  /\ AppUnchangedByHistoryScreen

----------------------------------------------------------------------------
(* Synchronization bridge: SyncManager *)

\* the static methods class DBService of src/db.ts defines; calling any other
\* name on the class throws a TypeError
DBServiceMethods ==
  {"generateId", "requestPersistence", "getDB", "saveEntry", "getAllEntries",
   "getCount", "deleteEntry", "deleteEntries", "getUnsyncedEntries",
   "markEntriesSynced", "saveSettings", "getSettings", "nuclearReset"}

\* markSynced as the earlier DBService defines it: the ids that are stored
\* get synced = true, the others are skipped
MarkSynced(s, ids) ==
  [i \in DOMAIN s |-> IF i \in ids THEN [s[i] EXCEPT !.synced = TRUE] ELSE s[i]]

RECURSIVE UpsertEntries(_, _, _)
\* upsert by id: the first n entries of es are put, in order
UpsertEntries(s, es, n) ==
  IF n = 0 THEN s ELSE SaveEntry(UpsertEntries(s, es, n - 1), es[n])

\* the cells of a JSON row
Str(v) == [t |-> "string", s |-> v, n |-> 0]

Num(x) == [t |-> "number", s |-> <<>>, n |-> x]

Null == [t |-> "null", s |-> <<>>, n |-> 0]

Undefined == [t |-> "undefined", s |-> <<>>, n |-> 0]

\* row[k], k counted from 0
At(row, k) == IF k + 1 <= Len(row) THEN row[k + 1] ELSE Undefined

\* String(x) of a number kept in tenths, x >= 0
NumberToString(x) ==
  IF IsNaN(x) THEN <<"N", "a", "N">>
  ELSE IF x % 10 = 0 THEN ToDigits(x \div 10)
       ELSE ToDigits(x \div 10) \o <<".", DigitChars[(x % 10) + 1]>>

\* String(cell)
JSString(cell) ==
  CASE cell.t = "string"    -> cell.s
    [] cell.t = "number"    -> NumberToString(cell.n)
    [] cell.t = "null"      -> <<"n", "u", "l", "l">>
    [] cell.t = "undefined" -> <<"u", "n", "d", "e", "f", "i", "n", "e", "d">>

\* how many characters of s the number at its head takes
NumericLength(s) ==
  LET signed == Len(s) >= 1 /\ s[1] \in {"-", "+"}
      start  == IF signed THEN 2 ELSE 1
      ni     == DigitRun(s, start)
      dot    == start + ni <= Len(s) /\ s[start + ni] = "."
      nf     == IF dot THEN DigitRun(s, start + ni + 1) ELSE 0
  IN  (start - 1) + ni + (IF dot THEN 1 + nf ELSE 0)

\* Number(cell): the whole string must be a number, '' is 0, null is 0
JSNumber(cell) ==
  CASE cell.t = "number"    -> cell.n
    [] cell.t = "null"      -> 0
    [] cell.t = "undefined" -> NaN
    [] cell.t = "string"    ->
         IF cell.s = <<>> THEN 0
         ELSE IF NumericLength(cell.s) = Len(cell.s) THEN ParseFloat(cell.s)
              ELSE NaN

\* the object a recall would build if it skipped the cell at position 4
RowToEntrySkippingFour(row) ==
  [id |-> JSString(At(row, 0)), tank |-> JSString(At(row, 1)),
   count |-> JSNumber(At(row, 2)), weight |-> JSNumber(At(row, 3)),
   crateWeight |-> 18, crateCount |-> JSNumber(At(row, 5)),
   team |-> JSString(At(row, 6)), timestamp |-> JSString(At(row, 7)),
   synced |-> TRUE]

\* the object handleRecallFromSheets builds from one row
RowToEntry(row) ==
  [id |-> JSString(At(row, 0)), tank |-> JSString(At(row, 1)),
   count |-> JSNumber(At(row, 2)), weight |-> JSNumber(At(row, 3)),
   crateWeight |-> 18, crateCount |-> JSNumber(At(row, 4)),
   team |-> JSString(At(row, 5)), timestamp |-> JSString(At(row, 6)),
   synced |-> TRUE]

RECURSIVE MapFilterRows(_, _)
\* rows from position i on, mapped, then .filter(e => e.id && e.tank)
MapFilterRows(data, i) ==
  IF i > Len(data) THEN <<>>
  ELSE LET e == RowToEntry(data[i])
       IN  IF e.id # <<>> /\ e.tank # <<>>
           THEN <<e>> \o MapFilterRows(data, i + 1)
           ELSE MapFilterRows(data, i + 1)

\* data.slice(1).map(...).filter(...)
RecalledEntries(data) == MapFilterRows(data, 2)

UnsyncedIds(es) == {es[i].id : i \in {j \in 1..Len(es) : ~es[j].synced}}

AppUnchangedBySyncManager ==
  /\ UNCHANGED <<ls, settings, googleSheetUrl, nextId, clock, confirmingDate,
                 currentView, isResetting, pending, dbCall, instance, aggIn, aggOut,
                 selectedDate, dailyAbstract, tankStats, revenueData, report, serials>>
  /\ LogScreenUnchanged

\* a push that marks the records before the request is sent
HandlePushMarkingFirst(fetchOk, dbOk, loadOk) ==
  /\ currentView = "sync" /\ ~isResetting
  /\ googleSheetUrl # <<>>
  /\ UnsyncedIds(entries) # {}
  /\ store' = MarkEntriesSynced(store, UnsyncedIds(entries))
  /\ entries' = LoadData(store', loadOk)
  /\ result' = IF fetchOk THEN "success" ELSE "error"
  /\ ev' = Ev("push", IF fetchOk THEN <<"resolved">> ELSE <<"threw">>,
              UnsyncedIds(entries), result')
  /\ UNCHANGED <<response, recalledEntries>>
  /\ AppUnchangedBySyncManager

\* SyncManager.handlePushToSheets (the Push button)
HandlePushToSheets(fetchOk, dbOk, loadOk) ==
  /\ currentView = "sync" /\ ~isResetting
  /\ IF googleSheetUrl = <<>>
     THEN /\ result' = "error"
          /\ UNCHANGED <<store, entries>>
          /\ ev' = Ev("push", <<"noUrl">>, {}, result')
     ELSE IF UnsyncedIds(entries) = {}
     THEN /\ UNCHANGED <<store, entries, result>>
          /\ ev' = Ev("push", <<"nothing">>, {}, result')
     ELSE /\ IF fetchOk /\ "markSynced" \in DBServiceMethods /\ dbOk
             THEN /\ store' = MarkSynced(store, UnsyncedIds(entries))
                  /\ result' = "success"
                  /\ entries' = LoadData(store', loadOk)
             ELSE /\ result' = "error"
                  /\ UNCHANGED <<store, entries>>
          /\ ev' = Ev("push", IF fetchOk THEN <<"resolved">> ELSE <<"threw">>,
                      UnsyncedIds(entries), result')
  /\ UNCHANGED <<response, recalledEntries>>
  /\ AppUnchangedBySyncManager

\* SyncManager.handleRecallFromSheets (the Recall button, enabled when an
\* address is configured); outcome is what fetch and response.json() did
HandleRecallFromSheets(outcome, body, dbOk, loadOk) ==
  /\ currentView = "sync" /\ ~isResetting
  /\ googleSheetUrl # <<>>
  /\ IF outcome = "ok" /\ "upsertEntries" \in DBServiceMethods /\ dbOk
     THEN /\ store' = UpsertEntries(store, RecalledEntries(body),
                                    Len(RecalledEntries(body)))
          /\ result' = "success"
          /\ entries' = LoadData(store', loadOk)
     ELSE /\ result' = "error"
          /\ UNCHANGED <<store, entries>>
  /\ response' = IF outcome = "ok" THEN body ELSE <<>>
  /\ recalledEntries' = IF outcome = "ok" THEN RecalledEntries(body) ELSE <<>>
  /\ ev' = Ev("pull", <<outcome>>, {}, result')
  /\ AppUnchangedBySyncManager

----------------------------------------------------------------------------
(* Aggregation Engine: the summaries of AbstractScreen and RevenueScreen *)

\* the summary a tank starts from when the map has none for it
NewSummary(entry) ==
  [tank |-> entry.tank, entryCount |-> 0, patluCount |-> 0,
   singlesCount |-> 0, crateCount |-> 0, totalWeight |-> 0,
   absoluteWeight |-> 0, shrimpCount |-> entry.count]

\* a fold step that keeps the weight of the last entry only
AddToSummaryOverwriting(current, entry) ==
  [current EXCEPT !.entryCount = @ + 1, !.totalWeight = entry.weight]

\* a fold step that leaves shrimpCount as the tank's first entry set it
AddToSummaryKeepingCount(current, entry) ==
  LET entryCrateCount      == OrNumber(entry.crateCount, 1)
      effectiveCrateWeight == OrNumber(entry.crateWeight, 18)
  IN  [current EXCEPT
         !.entryCount     = @ + 1,
         !.patluCount     = IF entryCrateCount = 2 THEN @ + 1 ELSE @,
         !.singlesCount   = IF entryCrateCount # 2 /\ entryCrateCount = 1
                            THEN @ + 1 ELSE @,
         !.crateCount     = JSAdd(@, entryCrateCount),
         !.totalWeight    = JSAdd(@, entry.weight),
         !.absoluteWeight = JSAdd(@, JSSub(entry.weight,
                                JSMul(entryCrateCount, effectiveCrateWeight)))]

\* the body of entries.forEach: one entry added to the summary of its tank
AddToSummary(current, entry) ==
  LET entryCrateCount      == OrNumber(entry.crateCount, 1)
      effectiveCrateWeight == OrNumber(entry.crateWeight, 18)
  IN  [current EXCEPT
         !.entryCount     = @ + 1,
         !.patluCount     = IF entryCrateCount = 2 THEN @ + 1 ELSE @,
         !.singlesCount   = IF entryCrateCount # 2 /\ entryCrateCount = 1
                            THEN @ + 1 ELSE @,
         !.crateCount     = JSAdd(@, entryCrateCount),
         !.totalWeight    = JSAdd(@, entry.weight),
         !.absoluteWeight = JSAdd(@, JSSub(entry.weight,
                                JSMul(entryCrateCount, effectiveCrateWeight))),
         !.shrimpCount    = entry.count]

\* a lookup that never finds the summary of a tank
MapIndexNotFound(map, tank) == 0

\* position of the summary of tank in the map (a Map keeps insertion order),
\* 0 when it has none
MapIndex(map, tank) ==
  IF \E k \in 1..Len(map) : map[k].tank = tank
  THEN CHOOSE k \in 1..Len(map) : map[k].tank = tank
  ELSE 0

RECURSIVE ForEachEntry(_, _, _)
\* entries.forEach from position i on, over the map built so far
ForEachEntry(map, es, i) ==
  IF i > Len(es) THEN map
  ELSE LET k == MapIndex(map, es[i].tank)
       IN  IF k = 0
           THEN ForEachEntry(Append(map, AddToSummary(NewSummary(es[i]), es[i])),
                             es, i + 1)
           ELSE ForEachEntry([map EXCEPT ![k] = AddToSummary(map[k], es[i])],
                             es, i + 1)

RECURSIVE InsertByTank(_, _, _)
InsertByTank(sorted, x, i) ==
  IF i > Len(sorted) THEN Append(sorted, x)
  ELSE IF LocaleCompare(x.tank, sorted[i].tank) < 0
       THEN SubSeq(sorted, 1, i - 1) \o <<x>> \o SubSeq(sorted, i, Len(sorted))
       ELSE InsertByTank(sorted, x, i + 1)

RECURSIVE SortByTank(_)
\* .sort((a, b) => a.tank.localeCompare(b.tank))
SortByTank(ss) ==
  IF ss = <<>> THEN <<>>
  ELSE InsertByTank(SortByTank(SubSeq(ss, 1, Len(ss) - 1)), ss[Len(ss)], 1)

Summaries(es) == SortByTank(ForEachEntry(<<>>, es, 1))

RECURSIVE ReduceTotalWeight(_, _)
\* summaries.reduce((acc, s) => acc + s.totalWeight, 0), the first n of them
ReduceTotalWeight(ss, n) ==
  IF n = 0 THEN 0 ELSE JSAdd(ReduceTotalWeight(ss, n - 1), ss[n].totalWeight)

TotalGross(ss) == ReduceTotalWeight(ss, Len(ss))

\* the screen renders: the summaries are computed from the entries it is given
RenderSummaries ==
  /\ aggOut = <<>>
  /\ aggOut' = <<Summaries(aggIn)>>
  /\ ev' = Ev("summaries", <<>>, {}, "ok")
  /\ UNCHANGED <<store, ls, entries, settings, googleSheetUrl, nextId, clock,
                 editingId, editValues, selectedIds, confirmingId,
                 confirmingDate, result, currentView, isResetting,
                 isBatchDeleting, pending, dbCall, instance, response, aggIn,
                 selectedDate, dailyAbstract, tankStats, revenueData, report,
                 recalledEntries, serials>>

----------------------------------------------------------------------------
(* The entry screen alone; the store may reject a request *)

NextEntry ==
  \/ Tick
  \/ \E text \in WeightTexts, cc \in {1, 2}, dbOk \in BOOLEAN :
       HandleSave(text, cc, dbOk)

SpecEntry == InitApp(EmptyStore, <<>>) /\ [][NextEntry]_vars

\* what the claim calls a weight that must not be recorded
NotPositive(n) == IsNaN(n) \/ n = 0 \/ n < 0

\* C1: on the add path, a weight text that parses to a non-number, to zero
\* or to a negative number writes no record to the Entry Store and leaves
\* the in-memory entry list as it was.
C1_RefusedWeightWritesNothing ==
  [][(ev'.op = "handleSave" /\ NotPositive(ParseFloat(ev'.arg)))
       => UNCHANGED <<store, entries>>]_vars

\* a refused weight was submitted while records were already stored
C1_Witness ==
  /\ ev.op = "handleSave"
  /\ NotPositive(ParseFloat(ev.arg))
  /\ Len(entries) > 0

----------------------------------------------------------------------------
(* Entry and history screens; the store answers every request *)

NextHistory ==
  \/ Tick
  \/ \E v \in {"entry", "history"} : SetCurrentView(v)
  \/ \E text \in {<<"5">>, <<"0">>} : HandleSave(text, 2, TRUE)
  \/ \E d \in DateKeys(entries) : HandleDeleteClick(d, TRUE, TRUE)
  \/ CancelDeleteDate

SpecHistory == InitApp(EmptyStore, <<>>) /\ [][NextHistory]_vars

\* C3: deleting a history date D removes from the Entry Store exactly the
\* entries whose timestamp date-prefix (the part before 'T') is D, leaves
\* every other entry as it was, and history grouping recomputed afterwards
\* has no bucket keyed D.
C3_DeleteDateRemovesExactlyThatDate ==
  [][(ev'.op = "deleteDate" /\ confirmingDate = ev'.arg /\ confirmingDate' = <<>>)
       => /\ DOMAIN store' =
               {i \in DOMAIN store : SplitT0(store[i].timestamp) # ev'.arg}
          /\ \A i \in DOMAIN store' : store'[i] = store[i]
          /\ \A k \in 1..Len(GroupedByDate(entries')) :
               GroupedByDate(entries')[k].date # ev'.arg]_vars

\* a date was deleted while entries of another date stayed
C3_Witness ==
  /\ ev.op = "deleteDate"
  /\ ev.ids # {}
  /\ DOMAIN store # {}
  /\ \A i \in DOMAIN store : SplitT0(store[i].timestamp) # ev.arg

----------------------------------------------------------------------------
(* The aggregation engine over every entry list of the bounded shapes *)

\* gross weights an entry can carry: the edit form stores what parseFloat
\* returns, so a stored weight may be NaN, negative or zero
AggWeights == {NaN, 0 - 5, 0, 25}

AggShapes == [tank : Tanks, weight : AggWeights]

AggEntry(k, shape) ==
  [id |-> IdOf(k), tank |-> shape.tank, count |-> 100 + k,
   weight |-> shape.weight, crateWeight |-> 100,
   crateCount |-> 1 + (k % 2), team |-> DefaultTeam,
   timestamp |-> ToISOString(0), synced |-> FALSE]

AggLists ==
  UNION {{[k \in 1..n |-> AggEntry(k, f[k])] : f \in [1..n -> AggShapes]} :
         n \in 0..MaxLen}

InitAgg ==
  /\ MountedOver(EmptyStore, <<>>)
  /\ aggIn \in AggLists
  /\ aggOut = <<>>

NextAgg == RenderSummaries

SpecAgg == InitAgg /\ [][NextAgg]_vars

RECURSIVE SumWeight(_, _)
\* the sum of weight over the first n entries
SumWeight(es, n) ==
  IF n = 0 THEN 0 ELSE JSAdd(SumWeight(es, n - 1), es[n].weight)

\* C2: the sum of totalWeight over the tank summaries the aggregation engine
\* emits equals the sum of weight over the input entries.
C2_GrossReconciliation ==
  aggOut # <<>> => TotalGross(aggOut[1]) = SumWeight(aggIn, Len(aggIn))

\* three entries were summarised into two tanks and the total is a number
C2_Witness ==
  /\ aggOut # <<>>
  /\ Len(aggIn) = 3
  /\ Len(aggOut[1]) = 2
  /\ ~IsNaN(TotalGross(aggOut[1]))
  /\ TotalGross(aggOut[1]) > 0

----------------------------------------------------------------------------
(* Entry and sync screens; the bridge may fail, the store answers *)

MaxRows == 2

HeaderRow ==
  <<Str(<<"i", "d">>), Str(<<"t", "a", "n", "k">>)>>

RowOf(idCell, tankCell) ==
  <<idCell, tankCell, Num(100), Num(50), Num(2), Str(DefaultTeam),
    Str(ToISOString(0))>>

\* rows the sheet may hold: one under the id of a local entry, one under a
\* new id, one with an empty id, one with an empty tank, one with no cells
PullRows ==
  {RowOf(Str(IdOf(1)), Str(TankName(2))), RowOf(Str(IdOf(9)), Str(TankName(2))),
   RowOf(Str(<<>>), Str(TankName(1))), RowOf(Str(IdOf(8)), Str(<<>>)), <<>>}

PullBodies ==
  UNION {{<<HeaderRow>> \o rows : rows \in [1..n -> PullRows]} : n \in 0..MaxRows}

InitSync ==
  \E s0 \in {EmptyStore, SyncedStore}, url \in {<<>>, SheetUrl} : InitApp(s0, url)

NextSync ==
  \/ \E v \in {"entry", "sync"} : SetCurrentView(v)
  \/ HandleSave(<<"5">>, 2, TRUE)
  \/ \E fetchOk \in BOOLEAN : HandlePushToSheets(fetchOk, TRUE, TRUE)
  \/ \E outcome \in {"threw", "notOk", "badBody"} :
       HandleRecallFromSheets(outcome, <<>>, TRUE, TRUE)
  \/ \E body \in PullBodies : HandleRecallFromSheets("ok", body, TRUE, TRUE)

SpecSync == InitSync /\ [][NextSync]_vars

\* C4: a bridge failure leaves the Entry Store unchanged: when the push
\* request throws, no record changes and every entry that was to be pushed
\* still has synced = false; when the pull request throws, answers non-ok or
\* answers an unparsable body, no entry is added, overwritten or removed.
C4_BridgeFailureLeavesStore ==
  [][(\/ ev'.op = "push" /\ ev'.arg = <<"threw">>
      \/ ev'.op = "pull" /\ ev'.arg \in {<<"threw">>, <<"notOk">>, <<"badBody">>})
       => /\ store' = store
          /\ \A id \in ev'.ids :
               id \in DOMAIN store' => ~store'[id].synced]_vars

\* a push of unsynced entries failed in the request
C4_Witness ==
  /\ ev.op = "push"
  /\ ev.arg = <<"threw">>
  /\ ev.ids # {}
  /\ \E id \in ev.ids : id \in DOMAIN store

\* C5: when a push completes without a thrown error, the entries that were
\* unsynced when it started are synced in the Entry Store afterwards, no
\* other field changes and no entry is added or removed.
C5_PushMarksExactlyUnsynced ==
  [][(ev'.op = "push" /\ ev'.arg = <<"resolved">>)
       => /\ DOMAIN store' = DOMAIN store
          /\ \A i \in DOMAIN store :
               store'[i] = [store[i] EXCEPT !.synced = TRUE]]_vars

\* a row that carries a non-empty id and a non-empty tank
RowHasIdAndTank(row) ==
  /\ Len(row) >= 2
  /\ row[1].t = "string" /\ row[1].s # <<>>
  /\ row[2].t = "string" /\ row[2].s # <<>>

RowIds(data) ==
  {data[k][1].s : k \in {j \in 2..Len(data) : RowHasIdAndTank(data[j])}}

\* C6: after a successful pull every row after the header that has an id and
\* a tank is stored under that id with synced = true, rows missing an id or
\* a tank create no record, and local entries whose ids do not occur in the
\* response are unchanged.
C6_PullUpsertsRows ==
  [][(ev'.op = "pull" /\ ev'.arg = <<"ok">>)
       => /\ \A id \in RowIds(response') :
               id \in DOMAIN store' /\ store'[id].synced
          /\ DOMAIN store' \subseteq (DOMAIN store) \cup RowIds(response')
          /\ \A i \in (DOMAIN store) \ RowIds(response') :
               i \in DOMAIN store' /\ store'[i] = store[i]]_vars

----------------------------------------------------------------------------
(* Entry, log and history screens with every store write followed from the
   call to its settlement.  A handler runs up to its await in one step (its
   Begin action); the store settles the writes in the order they were issued
   (readwrite transactions on one object store run in creation order), and
   the rest of the handler runs when its write settles. *)

MaxPending == 2

\* a store write in flight: the DBService call, the ids it writes, the record
\* it puts (<<>> for a delete) and the handler that awaits it
Op(call, ids, entry, handler) ==
  [call |-> call, ids |-> ids, entry |-> entry, handler |-> handler]

AppUnchangedByBegin ==
  UNCHANGED <<store, ls, entries, settings, googleSheetUrl, clock, result,
              currentView, isResetting, isBatchDeleting, dbCall, instance, response,
              aggIn, aggOut,
                 selectedDate, dailyAbstract, tankStats, revenueData, report,
                 recalledEntries, serials>>

\* CrateEntry.handleSave and App.handleAddEntry up to await saveEntry
HandleSaveBegin(text, cc) ==
  /\ currentView = "entry" /\ ~isResetting
  /\ Len(pending) < MaxPending
  /\ AcceptsWeight(ParseFloat(text))
  /\ nextId < MaxIds
  /\ nextId' = nextId + 1
  /\ pending' = Append(pending,
                  Op("saveEntry", {IdOf(nextId + 1)},
                     <<NewEntry(ParseFloat(text), cc)>>, "handleAddEntry"))
  /\ ev' = Ev("handleSave", text, {IdOf(nextId + 1)}, "issued")
  /\ UNCHANGED <<editingId, editValues, selectedIds, confirmingId, confirmingDate>>
  /\ AppUnchangedByBegin

\* LogScreen.saveEdit and App.handleUpdateEntry up to await saveEntry: the
\* form stays on screen, editingId is cleared after the await only
SaveEditBegin ==
  /\ currentView = "log" /\ ~isResetting
  /\ Len(pending) < MaxPending
  /\ FormRendered
  /\ editingId # <<>> /\ editValues # <<>>
  /\ pending' = Append(pending,
                  Op("saveEntry", {editValues[1].id}, editValues, "saveEdit"))
  /\ ev' = Ev("saveEdit", <<>>, {editValues[1].id}, "issued")
  /\ UNCHANGED <<nextId, editingId, editValues, selectedIds, confirmingId,
                 confirmingDate>>
  /\ AppUnchangedByBegin

\* LogScreen.confirmDelete and App.handleDeleteEntry up to await deleteEntry
ConfirmDeleteBegin(i) ==
  /\ currentView = "log" /\ ~isResetting
  /\ Len(pending) < MaxPending
  /\ i \in 1..Len(entries)
  /\ RowConfirming(entries[i])
  /\ confirmingId' = <<>>
  /\ pending' = Append(pending,
                  Op("deleteEntry", {entries[i].id}, <<>>, "confirmDelete"))
  /\ ev' = Ev("confirmDelete", <<>>, {entries[i].id}, "issued")
  /\ UNCHANGED <<nextId, editingId, editValues, selectedIds, confirmingDate>>
  /\ AppUnchangedByBegin

\* HistoryScreen.handleDeleteClick and App.handleDeleteHistoryDate up to
\* await deleteEntries: confirmingDate is cleared after the await only
HandleDeleteClickBegin(date) ==
  /\ currentView = "history" /\ ~isResetting
  /\ Len(pending) < MaxPending
  /\ date \in DateKeys(entries)
  /\ IF confirmingDate = date
     THEN /\ IdsToDelete(entries, date) # {}
          /\ pending' = Append(pending,
                          Op("deleteEntries", IdsToDelete(entries, date), <<>>,
                             "handleDeleteClick"))
          /\ UNCHANGED confirmingDate
          /\ ev' = Ev("deleteDate", date, IdsToDelete(entries, date), "issued")
     ELSE /\ confirmingDate' = date
          /\ UNCHANGED pending
          /\ ev' = Ev("askDeleteDate", date, {}, "ok")
  /\ UNCHANGED <<nextId, editingId, editValues, selectedIds, confirmingId>>
  /\ AppUnchangedByBegin

\* what a settled write leaves in the object store
Written(s, op) ==
  IF op.call = "saveEntry" THEN SaveEntry(s, op.entry[1])
  ELSE DeleteEntries(s, op.ids)

\* the oldest write settles and the handler that awaited it runs on: the
\* list is prepended to (add) or reloaded (the others), the screen state the
\* handler clears after its await is cleared
Settle(dbOk) ==
  /\ pending # <<>>
  /\ LET op == Head(pending)
     IN  /\ pending' = Tail(pending)
         /\ store' = IF dbOk THEN Written(store, op) ELSE store
         /\ entries' = IF ~dbOk THEN entries
                       ELSE IF op.handler = "handleAddEntry"
                            THEN op.entry \o entries
                            ELSE LoadData(store', TRUE)
         /\ editingId' = IF op.handler = "saveEdit" /\ currentView = "log"
                         THEN <<>> ELSE editingId
         /\ confirmingDate' = IF op.handler = "handleDeleteClick"
                                   /\ currentView = "history"
                              THEN <<>> ELSE confirmingDate
         /\ ev' = Ev("settle", <<>>, op.ids, IF dbOk THEN "resolved" ELSE "rejected")
  /\ UNCHANGED <<ls, settings, googleSheetUrl, nextId, clock, editValues,
                 selectedIds, confirmingId, result, currentView, isResetting,
                 isBatchDeleting, dbCall, instance, response, aggIn, aggOut,
                 selectedDate, dailyAbstract, tankStats, revenueData, report,
                 recalledEntries, serials>>

NextConc ==
  \/ \E v \in {"entry", "log", "history"} : SetCurrentView(v)
  \/ \E cc \in {1, 2} : HandleSaveBegin(<<"5">>, cc)
  \/ \E i \in 1..Len(entries) : StartEdit(i)
  \/ SaveEditBegin
  \/ \E i \in 1..Len(entries) : StartDelete(i)
  \/ \E i \in 1..Len(entries) : ConfirmDeleteBegin(i)
  \/ \E d \in DateKeys(entries) : HandleDeleteClickBegin(d)
  \/ \E dbOk \in BOOLEAN : Settle(dbOk)

SpecConc == InitApp(EmptyStore, <<>>) /\ [][NextConc]_vars

\* C7: no two store writes of the application are in flight at the same time
\* against the same entry id.
C7_NoTwoWritesInFlightOnOneId ==
  \A a, b \in 1..Len(pending) :
    a # b => pending[a].ids \cap pending[b].ids = {}

----------------------------------------------------------------------------
(* The log screen's edit path over a store that holds a synced record *)

NextLog ==
  \/ \E v \in {"entry", "log"} : SetCurrentView(v)
  \/ HandleSave(<<"5">>, 2, TRUE)
  \/ \E i \in 1..Len(entries) : StartEdit(i)
  \/ \E text \in EditTexts : ChangeEditWeight(text)
  \/ \E n \in {1, 2} : ChangeEditCrateCount(n)
  \/ CancelEdit
  \/ \E dbOk \in BOOLEAN : SaveEdit(dbOk, TRUE)

SpecLog == InitApp(SyncedStore, <<>>) /\ [][NextLog]_vars

----------------------------------------------------------------------------
(* DBService calls followed through the events IndexedDB delivers *)

DbWrites == {"saveEntry", "deleteEntry", "deleteEntries", "markEntriesSynced"}

DbReads == {"getAllEntries", "getCount"}

\* the event handlers a call registers on its transaction and its request
Handlers(op) ==
  IF op \in DbWrites THEN {"tx.oncomplete", "tx.onerror"}
  ELSE {"request.onsuccess", "request.onerror"}

\* the events that reach the listeners of the transaction: a request's error
\* event bubbles to it
Listeners(event) ==
  CASE event = "success"  -> {"request.onsuccess"}
    [] event = "error"    -> {"request.onerror", "tx.onerror"}
    [] event = "complete" -> {"tx.oncomplete"}
    [] event = "abort"    -> {"tx.onabort"}

\* the promise after an event: a handler of the call settles it once
Deliver(call, event) ==
  IF call.promise = "pending" /\ Handlers(call.op) \cap Listeners(event) # {}
  THEN IF event \in {"success", "complete"} THEN "resolved" ELSE "rejected"
  ELSE call.promise

DbArg(entry, ids) == [entry |-> entry, ids |-> ids]

\* the record saveEntry is called with in this specification
EditedEntry == [SyncedEntry EXCEPT !.weight = 70, !.synced = FALSE]

\* a record under an id the store does not hold when the page starts
OtherEntry == [EditedEntry EXCEPT !.id = IdOf(1), !.weight = 30]

\* ids the calls name: IdOf(2) is never stored
DbIds == {IdOf(0), IdOf(1), IdOf(2)}

DbArgs(op) ==
  CASE op = "saveEntry"         -> {DbArg(<<e>>, {}) : e \in {EditedEntry, OtherEntry}}
    [] op = "deleteEntry"       -> {DbArg(<<>>, {id}) : id \in DbIds}
    [] op = "deleteEntries"     -> {DbArg(<<>>, ids) : ids \in SUBSET DbIds}
    [] op = "markEntriesSynced" -> {DbArg(<<>>, ids) : ids \in SUBSET DbIds}
    [] OTHER                    -> {DbArg(<<>>, {})}

\* what the committed transaction of a write leaves in the object store
Committed(s, call) ==
  CASE call.op = "saveEntry"         -> SaveEntry(s, call.arg.entry[1])
    [] call.op = "deleteEntry"       -> DeleteEntries(s, call.arg.ids)
    [] call.op = "deleteEntries"     -> DeleteEntries(s, call.arg.ids)
    [] call.op = "markEntriesSynced" -> MarkEntriesSynced(s, call.arg.ids)
    [] OTHER                         -> s

DbUnchanged ==
  UNCHANGED <<ls, entries, settings, googleSheetUrl, nextId, clock, editingId,
              editValues, selectedIds, confirmingId, confirmingDate, result,
              currentView, isResetting, isBatchDeleting, pending, response,
              aggIn, aggOut,
                 selectedDate, dailyAbstract, tankStats, revenueData, report,
                 recalledEntries, serials, ev>>

\* a DBService method is called: await this.getDB() returns the cached
\* connection or opens one
DbCallBegin(op, arg) ==
  /\ dbCall = <<>>
  /\ dbCall' = <<[op |-> op, arg |-> arg,
                  phase |-> IF instance THEN "transaction" ELSE "open",
                  promise |-> "pending", failed |-> FALSE]>>
  /\ UNCHANGED <<store, instance>>
  /\ DbUnchanged

\* getDB: request.onsuccess
OpenSuccess ==
  /\ dbCall # <<>> /\ dbCall[1].phase = "open"
  /\ instance' = TRUE
  /\ dbCall' = <<[dbCall[1] EXCEPT !.phase = "transaction"]>>
  /\ UNCHANGED store
  /\ DbUnchanged

\* getDB: request.onerror rejects, so the method's await throws
OpenError ==
  /\ dbCall # <<>> /\ dbCall[1].phase = "open"
  /\ dbCall' = <<[dbCall[1] EXCEPT !.phase = "quiet", !.promise = "rejected",
                                   !.failed = TRUE]>>
  /\ UNCHANGED <<store, instance>>
  /\ DbUnchanged

\* db.transaction() or the request call throws: the catch block rejects
TransactionThrows ==
  /\ dbCall # <<>> /\ dbCall[1].phase = "transaction"
  /\ dbCall' = <<[dbCall[1] EXCEPT !.phase = "quiet", !.promise = "rejected",
                                   !.failed = TRUE]>>
  /\ UNCHANGED <<store, instance>>
  /\ DbUnchanged

\* the requests are placed and the handlers registered
RequestsPlaced ==
  /\ dbCall # <<>> /\ dbCall[1].phase = "transaction"
  /\ dbCall' = <<[dbCall[1] EXCEPT !.phase = "requests"]>>
  /\ UNCHANGED <<store, instance>>
  /\ DbUnchanged

\* the requests succeed: a read is answered, a write goes on to commit
RequestSuccess ==
  /\ dbCall # <<>> /\ dbCall[1].phase = "requests"
  /\ dbCall' = <<[dbCall[1] EXCEPT
                    !.phase = IF dbCall[1].op \in DbReads THEN "quiet" ELSE "commit",
                    !.promise = Deliver(dbCall[1], "success")]>>
  /\ UNCHANGED <<store, instance>>
  /\ DbUnchanged

\* a request fails: its error event bubbles to the transaction, which aborts
RequestError ==
  /\ dbCall # <<>> /\ dbCall[1].phase = "requests"
  /\ dbCall' = <<[dbCall[1] EXCEPT !.phase = "quiet", !.failed = TRUE,
                                   !.promise = Deliver(dbCall[1], "error")]>>
  /\ UNCHANGED <<store, instance>>
  /\ DbUnchanged

\* the transaction commits: complete event
CommitComplete ==
  /\ dbCall # <<>> /\ dbCall[1].phase = "commit"
  /\ store' = Committed(store, dbCall[1])
  /\ dbCall' = <<[dbCall[1] EXCEPT !.phase = "quiet",
                                   !.promise = Deliver(dbCall[1], "complete")]>>
  /\ UNCHANGED instance
  /\ DbUnchanged

\* the commit fails (quota, disk): the transaction aborts with no request
\* pending, so the abort event is the only one fired
CommitAbort ==
  /\ dbCall # <<>> /\ dbCall[1].phase = "commit"
  /\ dbCall' = <<[dbCall[1] EXCEPT !.phase = "quiet", !.failed = TRUE,
                                   !.promise = Deliver(dbCall[1], "abort")]>>
  /\ UNCHANGED <<store, instance>>
  /\ DbUnchanged

\* the caller's await ends when the promise has settled
DbCallReturn ==
  /\ dbCall # <<>> /\ dbCall[1].phase = "quiet"
  /\ dbCall[1].promise # "pending"
  /\ dbCall' = <<>>
  /\ UNCHANGED <<store, instance>>
  /\ DbUnchanged

\* the page before its first DBService call, over a store with one record
InitDB ==
  /\ MountedOver(SyncedStore, <<>>)
  /\ aggIn = <<>>
  /\ aggOut = <<>>

\* the page is opened again: no connection is cached
PageOpened ==
  /\ dbCall = <<>>
  /\ instance
  /\ instance' = FALSE
  /\ UNCHANGED <<store, dbCall>>
  /\ DbUnchanged

NextDB ==
  \/ \E op \in DbWrites \cup DbReads : \E arg \in DbArgs(op) : DbCallBegin(op, arg)
  \/ OpenSuccess
  \/ OpenError
  \/ TransactionThrows
  \/ RequestsPlaced
  \/ RequestSuccess
  \/ RequestError
  \/ CommitComplete
  \/ CommitAbort
  \/ DbCallReturn
  \/ PageOpened

SpecDB == InitDB /\ [][NextDB]_vars

\* C9: every Entry Store operation settles, and it settles as a rejection
\* whenever the database cannot be opened or its transaction errors or
\* aborts: once IndexedDB has delivered the last event of a call, the
\* promise is not pending, and it is rejected when the call failed.
C9_EveryOperationSettles ==
  (dbCall # <<>> /\ dbCall[1].phase = "quiet")
    => /\ dbCall[1].promise # "pending"
       /\ dbCall[1].failed => dbCall[1].promise = "rejected"

----------------------------------------------------------------------------
(* Quick setup of the entry screen and the destructive reset *)

MaxAdjust == 1

\* a quick update that keeps shrimpCount when the tank changes
QuickUpdatedKeepingCount(prev, tankUpd, countUpd) ==
  LET merged == [prev EXCEPT
                   !.activeTank  = IF tankUpd # <<>> THEN tankUpd[1] ELSE @,
                   !.shrimpCount = IF countUpd # <<>> THEN countUpd[1] ELSE @]
      counts == merged.tankCounts
  IN  IF countUpd # <<>>
      THEN [merged EXCEPT !.tankCounts =
              [t \in (DOMAIN counts) \cup {merged.activeTank} |->
                 IF t = merged.activeTank THEN countUpd[1] ELSE counts[t]]]
      ELSE merged

\* App.handleQuickUpdateSettings: tankUpd and countUpd are <<>> when the
\* update lacks the field and <<value>> when it carries it
QuickUpdated(prev, tankUpd, countUpd) ==
  LET merged   == [prev EXCEPT
                     !.activeTank  = IF tankUpd # <<>> THEN tankUpd[1] ELSE @,
                     !.shrimpCount = IF countUpd # <<>> THEN countUpd[1] ELSE @]
      switched == IF /\ tankUpd # <<>> /\ tankUpd[1] # <<>>
                     /\ tankUpd[1] # prev.activeTank
                     /\ tankUpd[1] \in DOMAIN merged.tankCounts
                  THEN [merged EXCEPT !.shrimpCount = merged.tankCounts[tankUpd[1]]]
                  ELSE merged
      counts   == switched.tankCounts
  IN  IF countUpd # <<>>
      THEN [switched EXCEPT !.tankCounts =
              [t \in (DOMAIN counts) \cup {switched.activeTank} |->
                 IF t = switched.activeTank THEN countUpd[1] ELSE counts[t]]]
      ELSE switched

AppUnchangedByQuickSetup ==
  /\ UNCHANGED <<store, entries, googleSheetUrl, nextId, clock, confirmingDate,
                 result, currentView, isResetting, pending, dbCall, instance,
                 response, aggIn, aggOut,
                 selectedDate, dailyAbstract, tankStats, revenueData, report,
                 recalledEntries, serials>>
  /\ LogScreenUnchanged

\* CrateEntry.handleQuickTankSelect
HandleQuickTankSelect(tankNum) ==
  /\ currentView = "entry" /\ ~isResetting
  /\ settings' = QuickUpdated(settings, <<TankName(tankNum)>>, <<>>)
  /\ ls' = SaveSettings(settings')
  /\ ev' = Ev("quickTankSelect", TankName(tankNum), {}, "ok")
  /\ AppUnchangedByQuickSetup

\* CrateEntry.adjustShrimpCount
AdjustShrimpCount(delta) ==
  /\ currentView = "entry" /\ ~isResetting
  /\ settings.shrimpCount + delta <= Defaults.shrimpCount + MaxAdjust
  /\ settings.shrimpCount + delta >= Defaults.shrimpCount - MaxAdjust
  /\ settings' = QuickUpdated(settings, <<>>,
                   <<IF settings.shrimpCount + delta > 1
                     THEN settings.shrimpCount + delta ELSE 1>>)
  /\ ls' = SaveSettings(settings')
  /\ ev' = Ev("adjustShrimpCount", <<>>, {}, "ok")
  /\ AppUnchangedByQuickSetup

\* a reset that leaves the settings record in place
KeepSettings(l) == l

\* nuclearReset: localStorage.removeItem(SETTINGS_KEY)
RemoveSettings(l) == <<>>

ResetUnchanged ==
  UNCHANGED <<googleSheetUrl, nextId, clock, response, aggIn, aggOut,
                 selectedDate, dailyAbstract, tankStats, revenueData, report,
                 recalledEntries, serials>>

\* App.onGlobalReset up to await nuclearReset: the settings record is
\* removed, the connection closed and deleteDatabase requested; the render
\* that setIsResetting(true) causes evaluates DBService.getSettings() again
OnGlobalReset ==
  /\ currentView = "control" /\ ~isResetting
  /\ dbCall = <<>>
  /\ isResetting' = TRUE
  /\ ls' = AfterGetSettings(RemoveSettings(ls))
  /\ instance' = FALSE
  /\ dbCall' = <<[op |-> "nuclearReset", arg |-> DbArg(<<>>, {}),
                  phase |-> "deleteDatabase", promise |-> "pending",
                  failed |-> FALSE]>>
  /\ ev' = Ev("onGlobalReset", <<>>, {}, "issued")
  /\ UNCHANGED <<store, entries, settings, currentView, pending, confirmingDate,
                 result>>
  /\ LogScreenUnchanged
  /\ ResetUnchanged

ResetAwaits(phases) ==
  /\ dbCall # <<>>
  /\ dbCall[1].op = "nuclearReset"
  /\ dbCall[1].phase \in phases

\* deleteReq.onblocked: another connection is open; the request waits
DeleteDatabaseBlocked ==
  /\ ResetAwaits({"deleteDatabase"})
  /\ dbCall' = <<[dbCall[1] EXCEPT !.phase = "blocked"]>>
  /\ ev' = Ev("deleteDatabase", <<>>, {}, "blocked")
  /\ UNCHANGED <<store, ls, entries, settings, currentView, isResetting,
                 instance, pending, confirmingDate, result>>
  /\ LogScreenUnchanged
  /\ ResetUnchanged

\* deleteReq.onsuccess: the database is gone, nuclearReset resolves
DeleteDatabaseSuccess ==
  /\ ResetAwaits({"deleteDatabase", "blocked"})
  /\ store' = EmptyStore
  /\ dbCall' = <<[dbCall[1] EXCEPT !.phase = "quiet", !.promise = "resolved"]>>
  /\ ev' = Ev("deleteDatabase", <<>>, {}, "resolved")
  /\ UNCHANGED <<ls, entries, settings, currentView, isResetting, instance,
                 pending, confirmingDate, result>>
  /\ LogScreenUnchanged
  /\ ResetUnchanged

\* deleteReq.onerror: nuclearReset rejects, the database stays
DeleteDatabaseError ==
  /\ ResetAwaits({"deleteDatabase", "blocked"})
  /\ dbCall' = <<[dbCall[1] EXCEPT !.phase = "quiet", !.promise = "rejected",
                                   !.failed = TRUE]>>
  /\ ev' = Ev("deleteDatabase", <<>>, {}, "rejected")
  /\ UNCHANGED <<store, ls, entries, settings, currentView, isResetting,
                 instance, pending, confirmingDate, result>>
  /\ LogScreenUnchanged
  /\ ResetUnchanged

\* window.location.reload() in the try and in the catch of onGlobalReset: the
\* page starts again, App mounts, getSettings and loadData run
Reload ==
  /\ ResetAwaits({"quiet"})
  /\ dbCall' = <<>>
  /\ settings' = GetSettings(ls)
  /\ ls' = AfterGetSettings(ls)
  /\ entries' = GetAllEntries(store)
  /\ instance' = TRUE
  /\ isResetting' = FALSE
  /\ currentView' = "entry"
  /\ LogScreenMounted
  /\ confirmingDate' = <<>>
  /\ result' = "none"
  /\ pending' = <<>>
  /\ ev' = Ev("reload", <<>>, {}, dbCall[1].promise)
  /\ UNCHANGED store
  /\ ResetUnchanged

NextReset ==
  \/ \E v \in {"entry", "control"} : SetCurrentView(v)
  \/ \E tankNum \in 1..2 : HandleQuickTankSelect(tankNum)
  \/ \E delta \in {0 - 1, 1} : AdjustShrimpCount(delta)
  \/ OnGlobalReset
  \/ DeleteDatabaseBlocked
  \/ DeleteDatabaseSuccess
  \/ DeleteDatabaseError
  \/ Reload

SpecReset == InitApp(SyncedStore, <<>>) /\ [][NextReset]_vars

\* nuclearReset has resolved and the page has not reloaded yet
ResetCompleted ==
  /\ dbCall # <<>>
  /\ dbCall[1].op = "nuclearReset"
  /\ dbCall[1].promise = "resolved"

----------------------------------------------------------------------------
(* History screen: the daily abstract of a selected date *)

\* a filter that compares the first character of the timestamp only
DateEntriesByFirstChar(es, date) ==
  SelectSeq(es, LAMBDA e : StartsWith(e.timestamp, SubSeq(date, 1, 1)))

\* entries.filter(e => e.timestamp.startsWith(selectedDate))
DateEntries(es, date) ==
  SelectSeq(es, LAMBDA e : StartsWith(e.timestamp, date))

RECURSIVE ReduceField(_, _, _)
\* summaries.reduce((acc, s) => acc + s[field], 0), the first n of them
ReduceField(ss, field, n) ==
  IF n = 0 THEN 0 ELSE JSAdd(ReduceField(ss, field, n - 1), ss[n][field])

\* parseFloat(prices[tank] || '0') || 0, in tenths
PriceOf(prices, tank) ==
  OrNumber(ParseFloat(IF tank \in DOMAIN prices /\ prices[tank] # <<>>
                      THEN prices[tank] ELSE <<"0">>), 0)

RECURSIVE ReduceRevenue(_, _, _)
\* summaries.reduce((acc, sum) => acc + sum.absoluteWeight * price, 0); the
\* product of two numbers in tenths is in hundredths
ReduceRevenue(ss, prices, n) ==
  IF n = 0 THEN 0
  ELSE JSAdd(ReduceRevenue(ss, prices, n - 1),
             JSMul(ss[n].absoluteWeight, PriceOf(prices, ss[n].tank)))

\* HistoryScreen.dailyAbstract for a selected date
DailyAbstract(es, prices, date) ==
  LET dateEntries == DateEntries(es, date)
      summaries   == Summaries(dateEntries)
  IN  [summaries     |-> summaries,
       totalAbsolute |-> ReduceField(summaries, "absoluteWeight", Len(summaries)),
       totalGross    |-> ReduceField(summaries, "totalWeight", Len(summaries)),
       totalCrates   |-> ReduceField(summaries, "crateCount", Len(summaries)),
       totalEntries  |-> Len(dateEntries),
       totalRevenue  |-> ReduceRevenue(summaries, prices, Len(summaries)),
       rawEntries    |-> SortByTimestampDesc(dateEntries)]

ScreenUnchanged ==
  UNCHANGED <<store, ls, entries, settings, googleSheetUrl, nextId, clock,
              editingId, editValues, selectedIds, confirmingId,
              confirmingDate, result, currentView, isResetting,
              isBatchDeleting, pending, dbCall, instance, response, aggIn>>

\* a row of the archive list is clicked: setSelectedDate(date), and the
\* render computes dailyAbstract for it
SelectDate(k) ==
  /\ selectedDate = <<>>
  /\ k \in 1..Len(GroupedByDate(aggIn))
  /\ LET date == GroupedByDate(aggIn)[k].date
     IN  /\ selectedDate' = date
         /\ dailyAbstract' =
              [d \in (DOMAIN dailyAbstract) \cup {date} |->
                 IF d = date
                 THEN DailyAbstract(aggIn, settings.tankPrices, date)
                 ELSE dailyAbstract[d]]
         /\ ev' = Ev("selectDate", date, {}, "ok")
  /\ UNCHANGED <<aggOut, tankStats, revenueData, report,
                 recalledEntries, serials>>
  /\ ScreenUnchanged

\* the back button of the daily abstract: setSelectedDate(null)
BackToArchive ==
  /\ selectedDate # <<>>
  /\ selectedDate' = <<>>
  /\ ev' = Ev("backToArchive", <<>>, {}, "ok")
  /\ UNCHANGED <<aggOut, dailyAbstract, tankStats, revenueData, report,
                 recalledEntries, serials>>
  /\ ScreenUnchanged

----------------------------------------------------------------------------
(* Abstract and history screens over entry lists that span two days *)

DailyShapes == [tank : Tanks, day : {0, 1}]

\* the k-th entry of a list: its weight grows with its position, so that no
\* two entries of a list weigh the same; single and double crates alternate
DailyEntry(k, shape) ==
  [id |-> IdOf(k), tank |-> shape.tank, count |-> 100 + k,
   weight |-> 250 * k, crateWeight |-> 100,
   crateCount |-> 1 + (k % 2), team |-> DefaultTeam,
   timestamp |-> ToISOString(shape.day * TicksPerDay), synced |-> FALSE]

DailyLists ==
  UNION {{[k \in 1..n |-> DailyEntry(k, f[k])] : f \in [1..n -> DailyShapes]} :
         n \in 0..MaxLen}

InitDaily ==
  /\ MountedOver(EmptyStore, <<>>)
  /\ aggIn \in DailyLists
  /\ aggOut = <<>>

NextDaily ==
  \/ RenderSummaries
  \/ \E k \in 1..MaxLen : SelectDate(k)
  \/ BackToArchive

SpecDaily == InitDaily /\ [][NextDaily]_vars

SummaryFields ==
  {"entryCount", "patluCount", "singlesCount", "crateCount", "totalWeight",
   "absoluteWeight"}

\* the value of a field in the summary of a tank, 0 when the tank has none
FieldOf(ss, tank, field) ==
  IF \E k \in 1..Len(ss) : ss[k].tank = tank
  THEN ss[CHOOSE k \in 1..Len(ss) : ss[k].tank = tank][field]
  ELSE 0

RECURSIVE SumOverDates(_, _, _, _)
\* the sum of a field of a tank over the daily abstracts of the dates ds
SumOverDates(abstracts, ds, tank, field) ==
  IF ds = {} THEN 0
  ELSE LET d == CHOOSE x \in ds : TRUE
       IN  JSAdd(FieldOf(abstracts[d].summaries, tank, field),
                 SumOverDates(abstracts, ds \ {d}, tank, field))

\* every date of the entry list has been opened on the history screen and
\* the abstract screen has rendered
AllDatesOpened ==
  /\ aggOut # <<>>
  /\ DOMAIN dailyAbstract = DateKeys(aggIn)

\* C11: for every tank, each of entryCount, patluCount, singlesCount,
\* crateCount, totalWeight and absoluteWeight of the all-time summary equals
\* the sum of that field over the tank's summaries in the daily abstracts of
\* all history dates; two entries of different dates are in the raw entries
\* of two different daily abstracts.
C11_AllTimeIsSumOfDaily ==
  AllDatesOpened =>
    /\ \A tank \in Tanks, field \in SummaryFields :
         FieldOf(aggOut[1], tank, field) =
           SumOverDates(dailyAbstract, DOMAIN dailyAbstract, tank, field)
    /\ \A i, j \in 1..Len(aggIn) :
         SplitT0(aggIn[i].timestamp) # SplitT0(aggIn[j].timestamp) =>
           \E d1, d2 \in DOMAIN dailyAbstract :
             /\ d1 # d2
             /\ \E k \in 1..Len(dailyAbstract[d1].rawEntries) :
                  dailyAbstract[d1].rawEntries[k] = aggIn[i]
             /\ \A k \in 1..Len(dailyAbstract[d1].rawEntries) :
                  dailyAbstract[d1].rawEntries[k] # aggIn[j]
             /\ \E k \in 1..Len(dailyAbstract[d2].rawEntries) :
                  dailyAbstract[d2].rawEntries[k] = aggIn[j]

\* one tank has entries on two dates, both dates were opened
C11_Witness ==
  /\ AllDatesOpened
  /\ \E i, j \in 1..Len(aggIn) :
       /\ aggIn[i].tank = aggIn[j].tank
       /\ SplitT0(aggIn[i].timestamp) # SplitT0(aggIn[j].timestamp)
  /\ Len(aggIn) = 3

----------------------------------------------------------------------------
(* Entry screen: the statistics of the active tank *)

\* a net weight that is not clamped at 0
MathMaxNone(x) == x

\* Math.max(0, x)
MathMax0(x) == IF IsNaN(x) THEN NaN ELSE IF x > 0 THEN x ELSE 0

\* (e.crateCount || 1) * (e.crateWeight || 1.8)
Tare(e) == JSMul(OrNumber(e.crateCount, 1), OrNumber(e.crateWeight, 18))

RECURSIVE ReduceNet(_, _)
\* reduce((sum, e) => sum + Math.max(0, e.weight - tare), 0), the first n
ReduceNet(es, n) ==
  IF n = 0 THEN 0
  ELSE JSAdd(ReduceNet(es, n - 1), MathMax0(JSSub(es[n].weight, Tare(es[n]))))

\* CrateEntry.tankStats
TankStats(es, activeTank) ==
  LET activeTankEntries == SelectSeq(es, LAMBDA e : e.tank = activeTank)
  IN  [patlu    |-> Len(SelectSeq(activeTankEntries, LAMBDA e : e.crateCount = 2)),
       singles  |-> Len(SelectSeq(activeTankEntries, LAMBDA e : e.crateCount = 1)),
       netTotal |-> ReduceNet(activeTankEntries, Len(activeTankEntries))]

\* the entry screen renders: tankStats is computed for the active tank
RenderTankStats ==
  /\ currentView = "entry"
  /\ tankStats' = <<TankStats(aggIn, settings.activeTank)>>
  /\ ev' = Ev("tankStats", settings.activeTank, {}, "ok")
  /\ UNCHANGED <<aggOut, selectedDate, dailyAbstract, revenueData, report,
                 recalledEntries, serials>>
  /\ ScreenUnchanged

----------------------------------------------------------------------------
(* Entry and abstract screens over entries lighter or heavier than their
   crates, or with a weight that is not a number *)

\* gross weights around the tare of one crate (10 kg) and of two (20 kg);
\* the edit form stores what parseFloat returns, NaN for an empty field
NetWeights == {NaN, 50, 250}

NetShapes == [tank : Tanks, weight : NetWeights]

NetEntry(k, shape) ==
  [id |-> IdOf(k), tank |-> shape.tank, count |-> 100 + k,
   weight |-> shape.weight, crateWeight |-> 100,
   crateCount |-> 1 + (k % 2), team |-> DefaultTeam,
   timestamp |-> ToISOString(0), synced |-> FALSE]

NetLists ==
  UNION {{[k \in 1..n |-> NetEntry(k, f[k])] : f \in [1..n -> NetShapes]} :
         n \in 0..MaxLen}

InitNet ==
  /\ MountedOver(EmptyStore, <<>>)
  /\ aggIn \in NetLists
  /\ aggOut = <<>>

NextNet ==
  \/ RenderSummaries
  \/ RenderTankStats
  \/ \E n \in 1..2 : HandleQuickTankSelect(n)

SpecNet == InitNet /\ [][NextNet]_vars

RECURSIVE Overshoot(_, _, _)
\* the sum of tare - weight over the entries of a tank, among the first n,
\* whose tare is above their weight
Overshoot(es, tank, n) ==
  IF n = 0 THEN 0
  ELSE LET d == JSSub(Tare(es[n]), es[n].weight)
       IN  IF es[n].tank = tank /\ ~IsNaN(d) /\ d > 0
           THEN JSAdd(Overshoot(es, tank, n - 1), d)
           ELSE Overshoot(es, tank, n - 1)

\* C12: for the active tank, the clamped net total of the entry screen minus
\* the absoluteWeight of the tank's summary equals the sum of
\* crateCount*crateWeight - weight over the tank's entries where that
\* difference is positive.
C12_ClampedNetMinusAbsoluteIsOvershoot ==
  (ev.op = "tankStats" /\ aggOut # <<>>) =>
    JSSub(tankStats[1].netTotal, FieldOf(aggOut[1], ev.arg, "absoluteWeight"))
      = Overshoot(aggIn, ev.arg, Len(aggIn))

----------------------------------------------------------------------------
(* Prices and the PDF report of the sync screen *)

\* App.handleUpdatePrice, called by the price input of a tank on the
\* revenue screen; the input is rendered for the tanks that have a summary
HandleUpdatePrice(tank, price) ==
  /\ currentView = "revenue" /\ ~isResetting
  /\ \E k \in 1..Len(aggIn) : aggIn[k].tank = tank
  /\ settings' = [settings EXCEPT !.tankPrices =
                    [x \in (DOMAIN settings.tankPrices) \cup {tank} |->
                       IF x = tank THEN price ELSE settings.tankPrices[x]]]
  /\ ls' = SaveSettings(settings')
  /\ ev' = Ev("updatePrice", tank, {}, "ok")
  /\ UNCHANGED <<store, entries, googleSheetUrl, nextId, clock, editingId,
                 editValues, selectedIds, confirmingId, confirmingDate,
                 result, currentView, isResetting, isBatchDeleting, pending,
                 dbCall, instance, response, aggIn, aggOut, selectedDate,
                 dailyAbstract, tankStats, revenueData, report,
                 recalledEntries, serials>>

\* the body of filteredEntries.forEach in handleDownloadPDF
ExportAdd(current, e) ==
  LET cCount == OrNumber(e.crateCount, 1)
      tare   == JSMul(cCount, OrNumber(e.crateWeight, 18))
  IN  [current EXCEPT
         !.entryCount     = @ + 1,
         !.patluCount     = IF cCount = 2 THEN @ + 1 ELSE @,
         !.singlesCount   = IF cCount = 2 THEN @ ELSE @ + 1,
         !.crateCount     = JSAdd(@, cCount),
         !.totalWeight    = JSAdd(@, e.weight),
         !.absoluteWeight = JSAdd(@, MathMax0(JSSub(e.weight, tare)))]

RECURSIVE ExportForEach(_, _, _)
\* filteredEntries.forEach from position i on, over tankMap built so far
ExportForEach(map, es, i) ==
  IF i > Len(es) THEN map
  ELSE LET k == MapIndex(map, es[i].tank)
       IN  IF k = 0
           THEN ExportForEach(Append(map, ExportAdd(NewSummary(es[i]), es[i])),
                              es, i + 1)
           ELSE ExportForEach([map EXCEPT ![k] = ExportAdd(map[k], es[i])],
                              es, i + 1)

\* parseFloat(prices[x.tank]) || 0
ExportPrice(prices, tank) ==
  IF tank \in DOMAIN prices THEN OrNumber(ParseFloat(prices[tank]), 0) ELSE 0

RECURSIVE ExportRevenue(_, _, _)
\* summaries.reduce((s, x) => s + x.absoluteWeight * price, 0)
ExportRevenue(ss, prices, n) ==
  IF n = 0 THEN 0
  ELSE JSAdd(ExportRevenue(ss, prices, n - 1),
             JSMul(ss[n].absoluteWeight, ExportPrice(prices, ss[n].tank)))

\* what handleDownloadPDF computes and writes for the selected dates
Report(es, dates, prices) ==
  LET filteredEntries ==
        SelectSeq(es, LAMBDA e : SplitT0(e.timestamp) \in dates)
      summaries == SortByTank(ExportForEach(<<>>, filteredEntries, 1))
  IN  [dates        |-> dates,
       summaries    |-> summaries,
       totalNet     |-> ReduceField(summaries, "absoluteWeight", Len(summaries)),
       totalRevenue |-> ExportRevenue(summaries, prices, Len(summaries)),
       units        |-> ReduceField(summaries, "entryCount", Len(summaries))]

\* SyncManager.handleDownloadPDF with selectedDates = dates
HandleDownloadPDF(dates) ==
  /\ currentView = "sync" /\ ~isResetting
  /\ dates # {} /\ dates \subseteq DateKeys(aggIn)
  /\ report' = <<Report(aggIn, dates, settings.tankPrices)>>
  /\ UNCHANGED <<recalledEntries, serials>>
  /\ ev' = Ev("downloadPDF", <<>>, {}, "ok")
  /\ UNCHANGED <<aggOut, selectedDate, dailyAbstract, tankStats, revenueData>>
  /\ ScreenUnchanged

----------------------------------------------------------------------------
(* Abstract, revenue and sync screens over priced entries *)

\* gross weights below and above the tare of a crate of 10 kg
ExportShapes == [tank : Tanks, weight : {50, 250}]

ExportLists ==
  UNION {{[k \in 1..n |-> NetEntry(k, f[k])] : f \in [1..n -> ExportShapes]} :
         n \in 0..MaxLen}

InitExport ==
  /\ MountedOver(EmptyStore, <<>>)
  /\ aggIn \in ExportLists
  /\ aggOut = <<>>

NextExport ==
  \/ \E v \in {"abstract", "revenue", "sync"} : SetCurrentView(v)
  \/ \E tank \in Tanks : HandleUpdatePrice(tank, <<"3">>)
  \/ RenderSummaries
  \/ \E dates \in SUBSET DateKeys(aggIn) : HandleDownloadPDF(dates)

SpecExport == InitExport /\ [][NextExport]_vars

\* C13: the per-tank patluCount, singlesCount and absoluteWeight, the total
\* net and the revenue of the PDF report over all dates equal what the
\* Aggregation Engine produces for the same entries and the same prices.
C13_ReportEqualsEngine ==
  (/\ ev.op = "downloadPDF" /\ aggOut # <<>>
   /\ report[1].dates = DateKeys(aggIn)) =>
    /\ \A tank \in Tanks,
          field \in {"patluCount", "singlesCount", "absoluteWeight"} :
         FieldOf(report[1].summaries, tank, field)
           = FieldOf(aggOut[1], tank, field)
    /\ report[1].totalNet
         = ReduceField(aggOut[1], "absoluteWeight", Len(aggOut[1]))
    /\ report[1].totalRevenue
         = ReduceRevenue(aggOut[1], settings.tankPrices, Len(aggOut[1]))

----------------------------------------------------------------------------
(* The Entry Store operations, one call at a time *)

\* the transaction of a call of method op commits in this step
Completes(op) ==
  /\ dbCall # <<>> /\ dbCall[1].op = op /\ dbCall[1].phase = "commit"
  /\ dbCall' # <<>> /\ ~dbCall'[1].failed

\* the call whose transaction has just committed was of method op
Completed(op) ==
  /\ dbCall # <<>> /\ dbCall[1].op = op /\ dbCall[1].phase = "quiet"
  /\ dbCall[1].promise = "resolved"

\* C14: markEntriesSynced called with a list that may hold ids the Entry
\* Store lacks resolves, creates no record, sets synced = true on exactly
\* the listed ids that are present and leaves every other record unchanged.
C14_MarkSyncedIgnoresAbsentIds ==
  [][Completes("markEntriesSynced") =>
       /\ dbCall'[1].promise = "resolved"
       /\ DOMAIN store' = DOMAIN store
       /\ \A i \in DOMAIN store :
            store'[i] = IF i \in dbCall[1].arg.ids
                        THEN [store[i] EXCEPT !.synced = TRUE]
                        ELSE store[i]]_vars

\* a marking that named an absent id, an unsynced record that is now synced
\* and left another record unsynced has resolved
C14_Witness ==
  /\ Completed("markEntriesSynced")
  /\ dbCall[1].arg.ids = {IdOf(0), IdOf(2)}
  /\ DOMAIN store = {IdOf(0), IdOf(1)}
  /\ store[IdOf(0)] = [EditedEntry EXCEPT !.synced = TRUE]
  /\ ~store[IdOf(1)].synced

\* C15: when saveEntry(e) completes, the Entry Store holds e under e.id,
\* every record with another id is unchanged, and the record count grows by
\* 1 if e.id was absent and by 0 if it was present; saving an entry the
\* store already holds leaves the store as it was.
C15_SaveEntryPutsById ==
  [][Completes("saveEntry") =>
       LET e == dbCall[1].arg.entry[1]
       IN  /\ dbCall'[1].promise = "resolved"
           /\ e.id \in DOMAIN store' /\ store'[e.id] = e
           /\ \A i \in (DOMAIN store) \ {e.id} :
                i \in DOMAIN store' /\ store'[i] = store[i]
           /\ Cardinality(DOMAIN store') =
                Cardinality(DOMAIN store)
                  + (IF e.id \in DOMAIN store THEN 0 ELSE 1)
           /\ (e.id \in DOMAIN store /\ store[e.id] = e) => store' = store]_vars

\* an entry was saved over a different record of the same id while a record
\* of another id was stored
C15_Witness ==
  /\ Completed("saveEntry")
  /\ dbCall[1].arg.entry = <<EditedEntry>>
  /\ DOMAIN store = {IdOf(0), IdOf(1)}
  /\ store[IdOf(0)] = EditedEntry
  /\ store[IdOf(1)] = OtherEntry

\* C16: deleteEntry(id) and deleteEntries(ids) resolve, remove exactly the
\* named ids that are present, whether or not other named ids are absent,
\* and never remove or modify a record that is not named.
C16_DeleteRemovesExactlyNamed ==
  [][(Completes("deleteEntry") \/ Completes("deleteEntries")) =>
       /\ dbCall'[1].promise = "resolved"
       /\ DOMAIN store' = (DOMAIN store) \ dbCall[1].arg.ids
       /\ \A i \in DOMAIN store' : store'[i] = store[i]]_vars

\* a delete that named a stored id and an absent one has resolved and a
\* record that was not named is still stored
C16_Witness ==
  /\ Completed("deleteEntries")
  /\ dbCall[1].arg.ids = {IdOf(0), IdOf(2)}
  /\ DOMAIN store = {IdOf(1)}
  /\ store[IdOf(1)] = OtherEntry

----------------------------------------------------------------------------
(* Control panel: the supervisor form *)

\* App.handleSaveSettings up to setCurrentView: the count of the form is
\* written under the active tank of the form
SavedSettings(newSettings) ==
  [newSettings EXCEPT !.tankCounts =
     [t \in (DOMAIN newSettings.tankCounts) \cup {newSettings.activeTank} |->
        IF t = newSettings.activeTank THEN newSettings.shrimpCount
        ELSE newSettings.tankCounts[t]]]

\* DBService.saveSettings: localStorage.setItem may throw (quota, storage
\* disabled); the catch block logs a warning and the stored item stays
SetItem(l, s, stored) == IF stored THEN SaveSettings(s) ELSE l

\* ControlPanel crate-weight input: onChange stores parseFloat(value) || 0
CrateWeightField(text) == OrNumber(ParseFloat(text), 0)

\* ControlPanel shrimp-count input: onChange stores parseInt(value) || 0
ShrimpCountField(text) == OrNumber(ParseInt(text), 0)

\* ControlPanel.handleSubmit with the tank button of tank pressed, shrimpCount
\* and crateWeight the form's states, then App.handleSaveSettings
SubmitForm(tank, shrimpCount, crateWeight, stored) ==
  /\ currentView = "control" /\ ~isResetting
  /\ settings' = SavedSettings(
                   [activeTank  |-> tank,
                    shrimpCount |-> shrimpCount,
                    crateWeight |-> crateWeight,
                    teamName    |-> settings.teamName,
                    tankCounts  |-> settings.tankCounts,
                    tankPrices  |-> settings.tankPrices])
  /\ ls' = SetItem(ls, settings', stored)
  /\ currentView' = "entry"
  /\ ev' = Ev("handleSubmit", tank, {}, IF stored THEN "stored" ELSE "warned")
  /\ UNCHANGED <<store, entries, googleSheetUrl, nextId, clock, confirmingDate,
                 result, isResetting, pending, dbCall, instance, response,
                 aggIn, aggOut, selectedDate, dailyAbstract, tankStats,
                 revenueData, report,
                 recalledEntries, serials>>
  /\ LogScreenUnchanged

\* the submit with the other fields as useState initialised them from
\* initialSettings
HandleSubmit(tank, stored) ==
  SubmitForm(tank, settings.shrimpCount, OrNumber(settings.crateWeight, 18),
             stored)

\* the submit after the crate-weight input was typed into
HandleSubmitTyped(tank, text, stored) ==
  SubmitForm(tank, settings.shrimpCount, CrateWeightField(text), stored)

\* the submit after the shrimp-count input was typed into
HandleSubmitCount(tank, text, stored) ==
  SubmitForm(tank, ShrimpCountField(text), OrNumber(settings.crateWeight, 18),
             stored)

----------------------------------------------------------------------------
(* Entry screen and control panel: tank switches and count adjustments *)

NextSettings ==
  \/ \E v \in {"entry", "control"} : SetCurrentView(v)
  \/ \E n \in 1..2 : HandleQuickTankSelect(n)
  \/ \E delta \in {0 - 1, 1} : AdjustShrimpCount(delta)
  \/ \E tank \in Tanks : HandleSubmit(tank, TRUE)

SpecSettings == InitApp(EmptyStore, <<>>) /\ [][NextSettings]_vars

\* C17: whenever a settings action changes activeTank to a tank T, the
\* resulting shrimpCount is the count stored for T before the action if
\* there was one, and the previous shrimpCount otherwise, and a count stored
\* for T is not overwritten; on the quick-setup path and on the control
\* panel path alike.
C17_TankSwitchRestoresCount ==
  [][settings'.activeTank # settings.activeTank =>
       LET T == settings'.activeTank
       IN  IF T \in DOMAIN settings.tankCounts
           THEN /\ settings'.shrimpCount = settings.tankCounts[T]
                /\ T \in DOMAIN settings'.tankCounts
                /\ settings'.tankCounts[T] = settings.tankCounts[T]
           ELSE settings'.shrimpCount = settings.shrimpCount]_vars

----------------------------------------------------------------------------
(* Settings Store: what a saved record reads back as when the page is
   opened again; localStorage may refuse a write *)

\* the page is opened again: App mounts, useState(DBService.getSettings())
\* and loadData run
PageReopened ==
  /\ ~isResetting /\ dbCall = <<>> /\ pending = <<>>
  /\ settings' = GetSettings(ls)
  /\ ls' = AfterGetSettings(ls)
  /\ entries' = GetAllEntries(store)
  /\ currentView' = "entry"
  /\ LogScreenMounted
  /\ confirmingDate' = <<>>
  /\ selectedDate' = <<>>
  /\ result' = "none"
  /\ ev' = Ev("pageReopened", <<>>, {}, "ok")
  /\ UNCHANGED <<store, googleSheetUrl, nextId, clock, isResetting, pending,
                 dbCall, instance, response, aggIn, aggOut, dailyAbstract,
                 tankStats, revenueData, report,
                 recalledEntries, serials>>

NextStorage ==
  \/ \E v \in {"entry", "control"} : SetCurrentView(v)
  \/ \E n \in 1..2 : HandleQuickTankSelect(n)
  \/ \E delta \in {0 - 1, 1} : AdjustShrimpCount(delta)
  \/ \E tank \in Tanks, stored \in BOOLEAN : HandleSubmit(tank, stored)
  \/ PageReopened

SpecStorage == InitApp(EmptyStore, <<>>) /\ [][NextStorage]_vars

\* the handlers that end in DBService.saveSettings(s), s being the new
\* value of App's settings
SavingHandlers == {"quickTankSelect", "adjustShrimpCount", "handleSubmit"}

\* C18: getSettings called after saveSettings(s), with no later save,
\* returns exactly s in activeTank, shrimpCount, tankCounts, tankPrices,
\* crateWeight and teamName: the settings the page starts with when it is
\* opened again are the settings the last saving handler saved.
C18_SavedSettingsReadBack ==
  [][(ev.op \in SavingHandlers /\ ev'.op = "pageReopened")
       => settings' = settings]_vars

----------------------------------------------------------------------------
(* Revenue screen *)

\* parseFloat(prices[sum.tank] || '') || 0, in tenths
RevenuePrice(prices, tank) ==
  OrNumber(ParseFloat(IF tank \in DOMAIN prices THEN prices[tank] ELSE <<>>), 0)

\* RevenueScreen.revenueData: each summary with its price and its revenue;
\* the product of two numbers in tenths is in hundredths
RevenueData(ss, prices) ==
  [k \in 1..Len(ss) |->
     [tank           |-> ss[k].tank,
      absoluteWeight |-> ss[k].absoluteWeight,
      price          |-> RevenuePrice(prices, ss[k].tank),
      revenue        |-> JSMul(ss[k].absoluteWeight,
                               RevenuePrice(prices, ss[k].tank))]]

\* the revenue screen renders: summaries, revenueData and totalRevenue
RenderRevenue ==
  /\ currentView = "revenue"
  /\ LET rows == RevenueData(Summaries(aggIn), settings.tankPrices)
     IN  revenueData' = <<[rows |-> rows,
                           totalRevenue |-> ReduceField(rows, "revenue", Len(rows))]>>
  /\ ev' = Ev("revenueData", <<>>, {}, "ok")
  /\ UNCHANGED <<aggOut, selectedDate, dailyAbstract, tankStats, report,
                 recalledEntries, serials>>
  /\ ScreenUnchanged

----------------------------------------------------------------------------
(* Revenue and abstract screens over priced entries; a stored weight may be
   NaN *)

\* what the price input may hold: nothing, a text that is no number, 0.3
PriceTexts == {<<>>, <<"a">>, <<"0", ".", "3">>}

RevenueShapes == [tank : Tanks, weight : {NaN, 250}]

RevenueLists ==
  UNION {{[k \in 1..n |-> NetEntry(k, f[k])] : f \in [1..n -> RevenueShapes]} :
         n \in 0..MaxLen}

InitRevenue ==
  /\ MountedOver(EmptyStore, <<>>)
  /\ aggIn \in RevenueLists
  /\ aggOut = <<>>

NextRevenue ==
  \/ \E v \in {"abstract", "revenue"} : SetCurrentView(v)
  \/ \E tank \in Tanks, price \in PriceTexts : HandleUpdatePrice(tank, price)
  \/ RenderSummaries
  \/ RenderRevenue

SpecRevenue == InitRevenue /\ [][NextRevenue]_vars

\* the price string of a tank parses to a number
UsablePrice(prices, tank) ==
  tank \in DOMAIN prices /\ ~IsNaN(ParseFloat(prices[tank]))

\* C19: each tank's revenue equals its absoluteWeight times its parsed
\* price, a missing, empty or unparsable price string counting as 0; the
\* grand revenue of the revenue screen and of the abstract screen equals the
\* sum of the per-tank revenues; a tank without a usable price contributes
\* exactly 0.
C19_RevenueIsNetTimesPrice ==
  (ev.op = "revenueData" /\ aggOut # <<>>) =>
    LET rows   == revenueData[1].rows
        prices == settings.tankPrices
    IN  /\ Len(rows) = Len(aggOut[1])
        /\ \A k \in 1..Len(rows) :
             /\ rows[k].tank = aggOut[1][k].tank
             /\ rows[k].revenue =
                  JSMul(aggOut[1][k].absoluteWeight,
                        IF UsablePrice(prices, rows[k].tank)
                        THEN ParseFloat(prices[rows[k].tank]) ELSE 0)
             /\ ~UsablePrice(prices, rows[k].tank) => rows[k].revenue = 0
        /\ revenueData[1].totalRevenue = ReduceField(rows, "revenue", Len(rows))
        /\ ReduceRevenue(aggOut[1], prices, Len(aggOut[1]))
             = ReduceField(rows, "revenue", Len(rows))

----------------------------------------------------------------------------
(* Abstract and history screens over entries of any crate count *)

\* crate counts an entry may carry: 0 (read as 1), 1, 2 and 3
CountShapes == [tank : Tanks, crateCount : {0, 1, 2, 3}]

CountEntry(k, shape) ==
  [id |-> IdOf(k), tank |-> shape.tank, count |-> 100 + k,
   weight |-> 250, crateWeight |-> 100,
   crateCount |-> shape.crateCount, team |-> DefaultTeam,
   timestamp |-> ToISOString(0), synced |-> FALSE]

CountLists ==
  UNION {{[k \in 1..n |-> CountEntry(k, f[k])] : f \in [1..n -> CountShapes]} :
         n \in 0..MaxLen}

InitCounts ==
  /\ MountedOver(EmptyStore, <<>>)
  /\ aggIn \in CountLists
  /\ aggOut = <<>>

NextCounts ==
  \/ RenderSummaries
  \/ SelectDate(1)

SpecCounts == InitCounts /\ [][NextCounts]_vars

\* the crate count an entry counts with: a zero or missing one is 1
EffectiveCrateCount(e) == IF e.crateCount = 0 THEN 1 ELSE e.crateCount

\* the entries of a tank
OfTank(es, tank) == {k \in 1..Len(es) : es[k].tank = tank}

RECURSIVE SumCrates(_, _)
\* the sum of the effective crate counts of the entries at positions ks
SumCrates(es, ks) ==
  IF ks = {} THEN 0
  ELSE LET k == CHOOSE x \in ks : TRUE
       IN  EffectiveCrateCount(es[k]) + SumCrates(es, ks \ {k})

\* the summaries ss count the entries es as the claim says
CountsAsClaimed(ss, es) ==
  /\ \A i, j \in 1..Len(ss) : ss[i].tank = ss[j].tank => i = j
  /\ \A tank \in Tanks :
       /\ FieldOf(ss, tank, "entryCount") = Cardinality(OfTank(es, tank))
       /\ FieldOf(ss, tank, "patluCount") =
            Cardinality({k \in OfTank(es, tank) : EffectiveCrateCount(es[k]) = 2})
       /\ FieldOf(ss, tank, "singlesCount") =
            Cardinality({k \in OfTank(es, tank) : EffectiveCrateCount(es[k]) = 1})
       /\ FieldOf(ss, tank, "crateCount") = SumCrates(es, OfTank(es, tank))
       /\ FieldOf(ss, tank, "patluCount") + FieldOf(ss, tank, "singlesCount")
            <= FieldOf(ss, tank, "entryCount")

\* C20: in the summaries of the abstract screen and of a daily abstract,
\* each tank's entryCount is the number of its entries, patluCount the
\* number whose effective crate count is 2, singlesCount the number whose
\* effective crate count is 1 and crateCount the sum of the effective crate
\* counts, so patluCount + singlesCount <= entryCount; an entry with another
\* crate count adds to entryCount and crateCount only.
C20_SummaryCounts ==
  /\ aggOut # <<>> => CountsAsClaimed(aggOut[1], aggIn)
  /\ \A d \in DOMAIN dailyAbstract :
       CountsAsClaimed(dailyAbstract[d].summaries, aggIn)

\* both screens have summarised a tank with a triple crate, a double crate
\* and an entry without crate count
C20_Witness ==
  /\ aggOut # <<>> /\ DOMAIN dailyAbstract # {}
  /\ \E tank \in Tanks :
       /\ {aggIn[k].crateCount : k \in OfTank(aggIn, tank)} = {0, 2, 3}
       /\ FieldOf(aggOut[1], tank, "entryCount") = 3
       /\ FieldOf(aggOut[1], tank, "patluCount") = 1
       /\ FieldOf(aggOut[1], tank, "singlesCount") = 1
       /\ FieldOf(aggOut[1], tank, "crateCount") = 6

-----------------------------------------------------------------------------
(* Abstract screen over the App's entry list: the tare of entries saved
   without a crate weight *)

\* App renders AbstractScreen with entries={entries}; the screen's useMemo
\* computes the summaries of that list
RenderAbstract ==
  /\ currentView = "abstract" /\ ~isResetting
  /\ aggIn' = entries
  /\ aggOut' = <<Summaries(entries)>>
  /\ ev' = Ev("abstract", <<>>, {}, "ok")
  /\ UNCHANGED <<store, ls, settings, entries, googleSheetUrl, nextId, clock,
                 confirmingDate, result, currentView, isResetting, pending,
                 dbCall, instance, response, selectedDate, dailyAbstract,
                 tankStats, revenueData, report,
                 recalledEntries, serials>>
  /\ LogScreenUnchanged

\* what the supervisor types into the crate-weight input
CrateWeightTexts == {<<"0">>, <<"1">>}

\* what the operator types into the weight input
TareWeightTexts == {<<"2">>, <<"5">>}

InitTare == InitApp(EmptyStore, <<>>)

NextTare ==
  \/ \E v \in {"entry", "control", "abstract"} : SetCurrentView(v)
  \/ \E tank \in Tanks, text \in CrateWeightTexts :
       HandleSubmitTyped(tank, text, TRUE)
  \/ \E text \in TareWeightTexts, cc \in {1, 2} : HandleSave(text, cc, TRUE)
  \/ RenderAbstract

SpecTare == InitTare /\ [][NextTare]_vars

\* the tare the claim gives entry e when cfg is the configured crate weight
ClaimedTare(e, cfg) ==
  JSMul(EffectiveCrateCount(e), IF e.crateWeight = 0 THEN cfg ELSE e.crateWeight)

RECURSIVE SumClaimedNet(_, _, _)
\* the sum of weight minus claimed tare of the entries at positions ks
SumClaimedNet(es, ks, cfg) ==
  IF ks = {} THEN 0
  ELSE LET k == CHOOSE x \in ks : TRUE
       IN  es[k].weight - ClaimedTare(es[k], cfg)
             + SumClaimedNet(es, ks \ {k}, cfg)

\* C21: whenever the abstract screen has summarised the entry list, each
\* tank's absoluteWeight is the sum of weight minus tare where the tare of an
\* entry with a zero crateWeight is (crateCount or 1) times the crateWeight
\* now held in the settings
C21_TareUsesConfiguredCrateWeight ==
  ev.op = "abstract" =>
    \A k \in 1..Len(aggOut[1]) :
      aggOut[1][k].absoluteWeight =
        SumClaimedNet(aggIn, OfTank(aggIn, aggOut[1][k].tank),
                      settings.crateWeight)

-----------------------------------------------------------------------------
(* Sync screen: the entries a recall builds from the rows of the response *)

\* a row as the script's doPost appends it: seven cells
SevenCellRow ==
  <<Str(IdOf(9)), Str(TankName(2)), Num(100), Num(50), Num(2),
    Str(DefaultTeam), Str(ToISOString(0))>>

\* a row of a sheet that keeps one more column before the crate count
EightCellRow ==
  <<Str(IdOf(8)), Str(TankName(1)), Num(100), Num(50), Str(<<"x">>), Num(1),
    Str(DefaultTeam), Str(ToISOString(1))>>

RecallRows ==
  {SevenCellRow, EightCellRow, RowOf(Str(IdOf(7)), Str(<<>>)), <<>>}

RecallBodies ==
  {<<>>} \cup
  UNION {{<<HeaderRow>> \o rows : rows \in [1..n -> RecallRows]} : n \in 0..MaxRows}

InitRecall == InitApp(EmptyStore, SheetUrl)

NextRecall ==
  \/ \E v \in {"entry", "sync"} : SetCurrentView(v)
  \/ HandleSave(<<"5">>, 2, TRUE)
  \/ \E fetchOk \in BOOLEAN : HandlePushToSheets(fetchOk, TRUE, TRUE)
  \/ \E outcome \in {"threw", "notOk", "badBody"} :
       HandleRecallFromSheets(outcome, <<>>, TRUE, TRUE)
  \/ \E body \in RecallBodies : HandleRecallFromSheets("ok", body, TRUE, TRUE)

SpecRecall == InitRecall /\ [][NextRecall]_vars

\* the rows after the first whose String(id) and String(tank) are not empty
KeptRows(data) ==
  SelectSeq(SubSeq(data, 2, Len(data)),
            LAMBDA r : JSString(At(r, 0)) # <<>> /\ JSString(At(r, 1)) # <<>>)

\* the entries es are built from the rows, with the crate count, the team
\* and the timestamp read at positions cc, tm and ts
BuiltFromRows(es, rows, cc, tm, ts) ==
  /\ Len(es) = Len(rows)
  /\ \A k \in 1..Len(rows) :
       /\ es[k].id = JSString(At(rows[k], 0))
       /\ es[k].tank = JSString(At(rows[k], 1))
       /\ es[k].count = JSNumber(At(rows[k], 2))
       /\ es[k].weight = JSNumber(At(rows[k], 3))
       /\ es[k].crateCount = JSNumber(At(rows[k], cc))
       /\ es[k].team = JSString(At(rows[k], tm))
       /\ es[k].timestamp = JSString(At(rows[k], ts))

\* C22 as stated: a recall whose request succeeded skips the first row and
\* builds each entry with crateCount, team and timestamp from positions 5, 6
\* and 7 of its row, position 4 being ignored.
C22_PullReadsPositionsFiveSixSeven ==
  [][(ev'.op = "pull" /\ ev'.arg = <<"ok">>)
       => BuiltFromRows(recalledEntries', KeptRows(response'), 5, 6, 7)]_vars

\* C22: a recall whose request succeeded skips the first row and builds each
\* entry from the remaining rows as id, tank, count and weight from
\* positions 0 to 3 and crateCount, team and timestamp from positions 4, 5
\* and 6, with crateWeight 1.8 and synced true; no position is ignored.
C22_PullReadsPositionsFourFiveSix ==
  [][(ev'.op = "pull" /\ ev'.arg = <<"ok">>)
       => /\ BuiltFromRows(recalledEntries', KeptRows(response'), 4, 5, 6)
          /\ \A k \in 1..Len(recalledEntries') :
               /\ recalledEntries'[k].crateWeight = 18
               /\ recalledEntries'[k].synced]_vars

\* a recall has built entries from a response of a header and two rows
C22_Witness ==
  /\ ev.op = "pull" /\ ev.arg = <<"ok">>
  /\ Len(response) = 3
  /\ Len(recalledEntries) = 2
  /\ recalledEntries[1].crateCount = 2

-----------------------------------------------------------------------------
(* Settings actions: quick setup, control panel and price updates *)

\* what the supervisor types into the shrimp-count input
ShrimpCountTexts == {<<>>, <<"9", "9">>}

InitSizing ==
  /\ MountedOver(EmptyStore, <<>>)
  /\ aggIn \in {l \in RevenueLists : Len(l) = 1}
  /\ aggOut = <<>>

NextSizing ==
  \/ \E v \in {"entry", "control", "revenue"} : SetCurrentView(v)
  \/ \E n \in 1..2 : HandleQuickTankSelect(n)
  \/ \E delta \in {0 - 1, 1} : AdjustShrimpCount(delta)
  \/ \E tank \in Tanks : HandleSubmit(tank, TRUE)
  \/ \E tank \in Tanks, text \in ShrimpCountTexts :
       HandleSubmitCount(tank, text, TRUE)
  \/ \E tank \in Tanks, price \in PriceTexts : HandleUpdatePrice(tank, price)

SpecSizing == InitSizing /\ [][NextSizing]_vars

\* the count kept for the active tank, when there is one, is shrimpCount
ActiveCountIsShrimpCount(s) ==
  s.activeTank \in DOMAIN s.tankCounts
    => s.tankCounts[s.activeTank] = s.shrimpCount

\* tankCounts of s and t agree at every key but tank
SameCountsBut(s, t, tank) ==
  /\ (DOMAIN s.tankCounts) \ {tank} = (DOMAIN t.tankCounts) \ {tank}
  /\ \A x \in (DOMAIN s.tankCounts) \ {tank} : s.tankCounts[x] = t.tankCounts[x]

\* C23: in every state reached from the default settings by quick tank
\* switches, quick count edits, control-panel saves and price updates, a
\* count kept for the active tank equals shrimpCount; and a quick count edit
\* leaves the active tank as it is and changes tankCounts at its key only.
C23_ActiveTankCountInStep ==
  /\ []ActiveCountIsShrimpCount(settings)
  /\ [][ev'.op = "adjustShrimpCount"
          => /\ settings'.activeTank = settings.activeTank
             /\ settings'.tankCounts[settings.activeTank] = settings'.shrimpCount
             /\ SameCountsBut(settings, settings', settings.activeTank)]_vars

\* a quick count edit on a tank switched to, while another tank has a count
C23_Witness ==
  /\ ev.op = "adjustShrimpCount"
  /\ DOMAIN settings.tankCounts = Tanks
  /\ \E t \in Tanks : settings.tankCounts[t] # settings.shrimpCount
  /\ settings.tankPrices # Defaults.tankPrices

-----------------------------------------------------------------------------
(* Log screen: the groups of sortedGroupedEntries and the serial numbers *)

\* new Date(timestamp).getTime() in ticks; NaN for a string that is no date
GetTime(ts) ==
  IF /\ Len(ts) = 4 /\ IsDigit(ts[1]) /\ IsDigit(ts[2]) /\ ts[3] = "T"
     /\ IsDigit(ts[4])
  THEN (DigitVal(ts[1]) * 10 + DigitVal(ts[2])) * TicksPerDay + DigitVal(ts[4])
  ELSE NaN

\* what Array.prototype.sort makes of a comparator's value: NaN counts as 0
SortOrder(v) == IF IsNaN(v) THEN 0 ELSE v

RECURSIVE InsertByTimeDesc(_, _, _)
\* the stable sort with (a, b) => getTime(b) - getTime(a): e, which comes
\* later in the list, goes before the first element the comparator puts
\* after it
InsertByTimeDesc(sorted, e, i) ==
  IF i > Len(sorted) THEN Append(sorted, e)
  ELSE IF SortOrder(JSSub(GetTime(e.timestamp), GetTime(sorted[i].timestamp))) > 0
       THEN SubSeq(sorted, 1, i - 1) \o <<e>> \o SubSeq(sorted, i, Len(sorted))
       ELSE InsertByTimeDesc(sorted, e, i + 1)

RECURSIVE SortByTimeDesc(_, _)
\* groups[tank].sort(...) over the first n elements of es
SortByTimeDesc(es, n) ==
  IF n = 0 THEN <<>>
  ELSE InsertByTimeDesc(SortByTimeDesc(es, n - 1), es[n], 1)

RECURSIVE TanksInOrder(_, _)
\* Object.keys(groups): the tanks in the order of their first entry
TanksInOrder(es, n) ==
  IF n = 0 THEN <<>>
  ELSE LET before == TanksInOrder(es, n - 1)
       IN  IF \E k \in 1..Len(before) : before[k] = es[n].tank
           THEN before ELSE Append(before, es[n].tank)

\* groups[tank] after its sort
SortedGroup(es, tank) ==
  LET group == SelectSeq(es, LAMBDA e : e.tank = tank)
  IN  [tank |-> tank, entries |-> SortByTimeDesc(group, Len(group))]

RECURSIVE InsertByLastActivity(_, _, _)
\* the stable sort of the groups by tankLastActivity, latest first
InsertByLastActivity(sorted, g, i) ==
  IF i > Len(sorted) THEN Append(sorted, g)
  ELSE IF SortOrder(JSSub(GetTime(g.entries[1].timestamp),
                          GetTime(sorted[i].entries[1].timestamp))) > 0
       THEN SubSeq(sorted, 1, i - 1) \o <<g>> \o SubSeq(sorted, i, Len(sorted))
       ELSE InsertByLastActivity(sorted, g, i + 1)

RECURSIVE SortGroups(_, _, _)
SortGroups(es, tanks, n) ==
  IF n = 0 THEN <<>>
  ELSE InsertByLastActivity(SortGroups(es, tanks, n - 1),
                            SortedGroup(es, tanks[n]), 1)

\* LogScreen.sortedGroupedEntries
SortedGroupedEntries(es) ==
  LET tanks == TanksInOrder(es, Len(es))
  IN  SortGroups(es, tanks, Len(tanks))

\* serialNumber = totalInTank - idx for every row of every group
SerialNumbers(groups) ==
  UNION {{[id |-> groups[g].entries[k].id, tank |-> groups[g].tank,
           timestamp |-> groups[g].entries[k].timestamp,
           serialNumber |-> Len(groups[g].entries) - (k - 1)] :
            k \in 1..Len(groups[g].entries)} : g \in 1..Len(groups)}

\* the log screen renders the entry list it was given
RenderLog ==
  /\ currentView = "log" /\ ~isResetting
  /\ serials' = <<[entries |-> entries,
                   groups  |-> SortedGroupedEntries(entries)]>>
  /\ ev' = Ev("renderLog", <<>>, {}, "ok")
  /\ UNCHANGED <<store, entries, ls, settings, googleSheetUrl, nextId, clock,
                 confirmingDate, result, currentView, isResetting, pending,
                 dbCall, instance, response, aggIn, aggOut, selectedDate,
                 dailyAbstract, tankStats, revenueData, report,
                 recalledEntries>>
  /\ LogScreenUnchanged

InitSerial == InitApp(EmptyStore, <<>>)

NextSerial ==
  \/ \E v \in {"entry", "log"} : SetCurrentView(v)
  \/ Tick
  \/ \E n \in 1..2 : HandleQuickTankSelect(n)
  \/ HandleSave(<<"5">>, 2, TRUE)
  \/ \E i \in 1..Len(entries) : StartEdit(i)
  \/ SaveEdit(TRUE, TRUE)
  \/ RenderLog

SpecSerial == InitSerial /\ [][NextSerial]_vars

\* the elements of a list, as a set
ElementsOf(es) == {es[k] : k \in 1..Len(es)}

\* row r stands at a place its timestamp can take in the ascending order of
\* its tank: after every earlier entry and before every later one
AtAscendingPosition(r, rows) ==
  LET same == {x \in rows : x.tank = r.tank}
  IN  /\ \A x \in same :
           GetTime(x.timestamp) < GetTime(r.timestamp)
             => x.serialNumber < r.serialNumber
      /\ r.serialNumber \in 1..Cardinality(same)
      /\ \A x \in same : x.serialNumber = r.serialNumber => x = r

\* C24: whenever the log screen renders, every row's serial is its place in
\* the ascending-timestamp order of its tank, the serials of a tank are the
\* numbers 1..N once each, and a list holding the same entries as the list
\* rendered before gives every entry the serial it had.
C24_SerialsFollowTimestampsOnly ==
  [][ev'.op = "renderLog"
       => LET rows == SerialNumbers(serials'[1].groups)
          IN  /\ \A r \in rows : AtAscendingPosition(r, rows)
              /\ (/\ serials # <<>>
                  /\ ElementsOf(serials[1].entries) = ElementsOf(entries'))
                   => rows = SerialNumbers(serials[1].groups)]_vars

-----------------------------------------------------------------------------
(* Abstract screen: the shrimpCount of a tank's summary *)

SizeShapes == [tank : Tanks, count : {99, 100}, day : {0, 1}]

\* the entry of shape sh at place k of the list
SizeEntry(sh, k) ==
  [id |-> IdOf(k), tank |-> sh.tank, count |-> sh.count, weight |-> 250,
   crateWeight |-> 18, crateCount |-> 2, team |-> DefaultTeam,
   timestamp |-> ToISOString(sh.day * TicksPerDay), synced |-> FALSE]

SizeLists ==
  UNION {{[k \in 1..n |-> SizeEntry(f[k], k)] : f \in [1..n -> SizeShapes]} :
           n \in 0..MaxLen}

InitSize ==
  /\ MountedOver(EmptyStore, <<>>)
  /\ aggIn \in SizeLists
  /\ aggOut = <<>>

NextSize == RenderSummaries

SpecSize == InitSize /\ [][NextSize]_vars

\* the place of the last entry of the tank in the list
LastOfTank(es, tank) ==
  CHOOSE k \in OfTank(es, tank) : \A j \in OfTank(es, tank) : j <= k

\* C25: once the summaries are rendered, each tank's summary carries the
\* count of the last entry of that tank in the list, whatever the counts and
\* timestamps of the tank's other entries.
C25_ShrimpCountIsLastEntrysCount ==
  ev.op = "summaries" =>
    \A k \in 1..Len(aggOut[1]) :
      aggOut[1][k].shrimpCount
        = aggIn[LastOfTank(aggIn, aggOut[1][k].tank)].count

\* a tank whose last entry is the oldest and carries a count no other entry
\* of the tank has
C25_Witness ==
  /\ ev.op = "summaries"
  /\ \E t \in Tanks :
       /\ Cardinality(OfTank(aggIn, t)) >= 2
       /\ \A j \in OfTank(aggIn, t) \ {LastOfTank(aggIn, t)} :
            /\ aggIn[j].count # aggIn[LastOfTank(aggIn, t)].count
            /\ LocaleCompare(aggIn[j].timestamp,
                             aggIn[LastOfTank(aggIn, t)].timestamp) > 0

-----------------------------------------------------------------------------
(* Entry, log and sync screens: the weights that reach the Entry Store *)

InitWeights == InitApp(EmptyStore, SheetUrl)

NextWeights ==
  \/ \E v \in {"entry", "log", "sync"} : SetCurrentView(v)
  \/ \E text \in {<<"0">>, <<"5">>} : HandleSave(text, 2, TRUE)
  \/ \E i \in 1..Len(entries) : StartEdit(i)
  \/ \E text \in EditTexts : ChangeEditWeight(text)
  \/ SaveEdit(TRUE, TRUE)
  \/ \E i \in 1..Len(entries) : StartDelete(i)
  \/ \E i \in 1..Len(entries) : ConfirmDelete(i, TRUE, TRUE)
  \/ HandleRecallFromSheets("ok", <<HeaderRow, SevenCellRow>>, TRUE, TRUE)

SpecWeights == InitWeights /\ [][NextWeights]_vars

\* C26: in every state reached by adds, saved edits, deletes and pulls,
\* every entry of the Entry Store has a weight that is a number above 0.
C26_StoredWeightsPositive ==
  \A id \in DOMAIN store :
    ~IsNaN(store[id].weight) /\ store[id].weight > 0

-----------------------------------------------------------------------------
(* Entry, log and history screens, every store call succeeding: the entry
   list of App against the Entry Store *)

InitMirror == InitApp(EmptyStore, <<>>)

NextMirror ==
  \/ Tick
  \/ \E v \in {"entry", "log", "history"} : SetCurrentView(v)
  \/ HandleSave(<<"5">>, 2, TRUE)
  \/ StartEdit(1)
  \/ ChangeEditWeight(<<"7">>)
  \/ SaveEdit(TRUE, TRUE)
  \/ StartDelete(Len(entries))
  \/ ConfirmDelete(Len(entries), TRUE, TRUE)
  \/ HandleSelectAll
  \/ HandleBatchDeleteClick(TRUE, TRUE)
  \/ \E d \in DateKeys(entries) : HandleDeleteClick(d, TRUE, TRUE)

SpecMirror == InitMirror /\ [][NextMirror]_vars

\* the list es holds the records of store s, each once
HoldsExactly(es, s) ==
  /\ Len(es) = Cardinality(DOMAIN s)
  /\ \A k \in 1..Len(es) : es[k].id \in DOMAIN s /\ s[es[k].id] = es[k]
  /\ \A j, k \in 1..Len(es) : es[j].id = es[k].id => j = k

\* no entry of es stands before a later one
DescendingByTimestamp(es) ==
  \A k \in 1..Len(es) - 1 :
    LocaleCompare(es[k].timestamp, es[k + 1].timestamp) >= 0

-----------------------------------------------------------------------------
(* Entry screen against abstract screen: the statistics of the active tank *)

\* a double crate lighter than its tare, a single crate, an entry without a
\* crate count, an entry whose weight the edit form left as NaN
StatKinds ==
  {[weight |-> 50, crateCount |-> 2], [weight |-> 250, crateCount |-> 1],
   [weight |-> 250, crateCount |-> 0], [weight |-> NaN, crateCount |-> 1]}

StatShapes == [tank : Tanks, kind : StatKinds]

StatEntry(k, shape) ==
  [id |-> IdOf(k), tank |-> shape.tank, count |-> 100,
   weight |-> shape.kind.weight, crateWeight |-> 100,
   crateCount |-> shape.kind.crateCount, team |-> DefaultTeam,
   timestamp |-> ToISOString(0), synced |-> FALSE]

StatLists ==
  UNION {{[k \in 1..n |-> StatEntry(k, f[k])] : f \in [1..n -> StatShapes]} :
         n \in 0..MaxLen}

InitStats ==
  /\ MountedOver(EmptyStore, <<>>)
  /\ aggIn \in StatLists
  /\ aggOut = <<>>

NextStats ==
  \/ RenderSummaries
  \/ RenderTankStats
  \/ \E n \in 1..2 : HandleQuickTankSelect(n)

SpecStats == InitStats /\ [][NextStats]_vars

\* how many entries of the tank have a crate count of 0
ZeroCounts(es, tank) ==
  Cardinality({k \in OfTank(es, tank) : es[k].crateCount = 0})

\* C28 as stated: once both screens are rendered, the entry screen's patlu,
\* singles and net total of the active tank equal the patluCount,
\* singlesCount and absoluteWeight of the tank's summary.
C28_StatsEqualSummary ==
  (ev.op = "tankStats" /\ aggOut # <<>>) =>
    /\ tankStats[1].patlu = FieldOf(aggOut[1], ev.arg, "patluCount")
    /\ tankStats[1].singles = FieldOf(aggOut[1], ev.arg, "singlesCount")
    /\ tankStats[1].netTotal = FieldOf(aggOut[1], ev.arg, "absoluteWeight")

\* C28: once both screens are rendered, for the active tank the entry
\* screen's patlu equals patluCount, its singles equal singlesCount less the
\* entries whose crate count is 0, and its net total is absoluteWeight plus
\* the overshoot that clamping suppressed (NaN when absoluteWeight is NaN).
C28_StatsAgreeUpToClampAndZeroCount ==
  (ev.op = "tankStats" /\ aggOut # <<>>) =>
    /\ tankStats[1].patlu = FieldOf(aggOut[1], ev.arg, "patluCount")
    /\ tankStats[1].singles
         = FieldOf(aggOut[1], ev.arg, "singlesCount") - ZeroCounts(aggIn, ev.arg)
    /\ tankStats[1].netTotal
         = JSAdd(FieldOf(aggOut[1], ev.arg, "absoluteWeight"),
                 Overshoot(aggIn, ev.arg, Len(aggIn)))

\* both screens rendered for a tank with a clamped entry and an entry of
\* crate count 0
C28_Witness ==
  /\ ev.op = "tankStats" /\ aggOut # <<>>
  /\ Overshoot(aggIn, ev.arg, Len(aggIn)) > 0
  /\ ZeroCounts(aggIn, ev.arg) > 0
  /\ tankStats[1].patlu > 0

-----------------------------------------------------------------------------
(* Sync screen: a push into a sheet and a recall of that sheet *)

\* the row the script's doPost appends for a pushed record r
EntryToRow(r) ==
  <<Str(r.id), Str(r.tank), Num(r.count), Num(r.weight), Num(r.crateCount),
    Str(r.team), Str(r.timestamp)>>

\* what doGet returns from a sheet that held a header row before the push
\* of the unsynced entries of es: the header, then one row per record in the
\* order of the request body
SheetAfterPush(es) ==
  LET unsyncedEntries == SelectSeq(es, LAMBDA e : ~e.synced)
  IN  <<HeaderRow>> \o [k \in 1..Len(unsyncedEntries) |->
                          EntryToRow(unsyncedEntries[k])]

InitRoundTrip == InitApp(EmptyStore, SheetUrl)

NextRoundTrip ==
  \/ Tick
  \/ \E v \in {"entry", "sync"} : SetCurrentView(v)
  \/ \E cc \in {1, 2} : HandleSave(<<"5">>, cc, TRUE)
  \/ HandlePushToSheets(TRUE, TRUE, TRUE)
  \/ HandleRecallFromSheets("ok", SheetAfterPush(entries), TRUE, TRUE)

SpecRoundTrip == InitRoundTrip /\ [][NextRoundTrip]_vars

\* records a and b agree in the fields the claim names
SameRecord(a, b) ==
  /\ a.id = b.id /\ a.tank = b.tank /\ a.count = b.count
  /\ a.weight = b.weight /\ a.crateWeight = b.crateWeight
  /\ a.crateCount = b.crateCount /\ a.team = b.team
  /\ a.timestamp = b.timestamp

\* C29: when a push whose request resolved is followed by a recall of the
\* sheet it filled, every pushed entry comes back: the recall builds a
\* record of its id with the same id, tank, count, weight, crateWeight,
\* crateCount, team and timestamp, and that record is what the Entry Store
\* holds under the id afterwards.
C29_PushThenPullKeepsRecord ==
  [][(/\ ev.op = "push" /\ ev.arg = <<"resolved">>
      /\ ev'.op = "pull" /\ ev'.arg = <<"ok">>)
       => \A id \in ev.ids :
            /\ id \in DOMAIN store'
            /\ \E k \in 1..Len(recalledEntries') :
                 /\ SameRecord(recalledEntries'[k], store[id])
                 /\ store'[id] = recalledEntries'[k]]_vars

-----------------------------------------------------------------------------
(* History screen: the delete button of a date, its No button and the
   Clear Entire Archive button *)

\* the ids handleDeleteHistoryDate collects over every date of dailyStats
IdsOfAllDates(es) == UNION {IdsToDelete(es, d) : d \in DateKeys(es)}

\* HistoryScreen.handleClearAll; confirmed is the answer to window.confirm.
\* The loop calls onDeleteDate for every date of dailyStats with the entry
\* list of the render the click came from.
HandleClearAll(confirmed, dbOk, loadOk) ==
  /\ currentView = "history" /\ ~isResetting
  /\ selectedDate = <<>>
  /\ DateKeys(entries) # {}
  /\ IF confirmed /\ dbOk
     THEN /\ store' = DeleteEntries(store, IdsOfAllDates(entries))
          /\ entries' = LoadData(store', loadOk)
     ELSE UNCHANGED <<store, entries>>
  /\ ev' = Ev("clearAll", <<>>,
              IF confirmed THEN IdsOfAllDates(entries) ELSE {},
              IF ~confirmed THEN "declined"
              ELSE IF dbOk THEN "deleted" ELSE "alert")
  /\ UNCHANGED confirmingDate
  /\ AppUnchangedByHistoryScreen

InitArchive == InitApp(EmptyStore, <<>>)

NextArchive ==
  \/ Tick
  \/ \E v \in {"entry", "history"} : SetCurrentView(v)
  \/ HandleSave(<<"5">>, 2, TRUE)
  \/ \E d \in DateKeys(entries), dbOk \in BOOLEAN : HandleDeleteClick(d, dbOk, TRUE)
  \/ CancelDeleteDate
  \/ \E confirmed \in BOOLEAN : HandleClearAll(confirmed, TRUE, TRUE)

SpecArchive == InitArchive /\ [][NextArchive]_vars

\* a click on the delete button of a date (a step other than a tick of the
\* clock): onDeleteDate runs only when the date is the one awaiting
\* confirmation, a first click only records the date, and No drops the
\* pending confirmation and deletes nothing
DeleteButtonAsksTwice ==
  /\ (ev'.op = "deleteDate" /\ clock' = clock)
       => /\ confirmingDate = ev'.arg
          /\ \A i \in (DOMAIN store) \ (DOMAIN store') :
               SplitT0(store[i].timestamp) = ev'.arg
  /\ (ev'.op = "askDeleteDate" /\ clock' = clock)
       => /\ confirmingDate # ev'.arg /\ confirmingDate' = ev'.arg
          /\ store' = store /\ entries' = entries
  /\ (ev'.op = "cancelDeleteDate" /\ clock' = clock)
       => confirmingDate' = <<>> /\ store' = store /\ entries' = entries

\* C30 as stated: on the history screen no entry leaves the Entry Store
\* except by a click on the delete button of its date while that date awaits
\* confirmation; a first click only records the date and No deletes nothing.
C30_DeletedOnlyAfterTwoClicks ==
  [][/\ DeleteButtonAsksTwice
     /\ (currentView = "history" /\ DOMAIN store' # DOMAIN store)
          => ev'.op = "deleteDate" /\ confirmingDate = ev'.arg]_vars

\* C30: the delete button of a date deletes only on a click made while that
\* date awaits confirmation, a first click only records the date and No
\* deletes nothing; the one other way entries leave the store on the history
\* screen is Clear Entire Archive, which deletes every date after one
\* window.confirm.
C30_DeleteButtonNeedsTwoClicks ==
  [][/\ DeleteButtonAsksTwice
     /\ (currentView = "history" /\ DOMAIN store' # DOMAIN store)
          => \/ ev'.op = "deleteDate" /\ confirmingDate = ev'.arg
             \/ ev'.op = "clearAll" /\ ev'.out = "deleted"]_vars

\* a date was deleted by the second click while another date stayed
C30_Witness ==
  /\ ev.op = "deleteDate" /\ ev.out = "deleted"
  /\ ev.ids # {}
  /\ confirmingDate = <<>>
  /\ DOMAIN store # {}

====
